---- MODULE Spec2Model ----
(***************************************************************************)
(* Model of the S3 backend of webrun-files: the streaming multipart write  *)
(* of S3FileHandle (s3-file-handle.ts) and the whole-file write of         *)
(* S3FilesApi (s3-files-api.ts), running against one object key of an      *)
(* S3-compatible store.                                                    *)
(*                                                                         *)
(* Every `await client.send(...)` of the source is one step.  A request    *)
(* either succeeds and takes effect on the store, or fails and leaves the  *)
(* store as it was.  A request that carries an already aborted signal is   *)
(* rejected by the client.  Offsets are 0-based as in the source; byte     *)
(* sequences are 1-based TLA+ sequences.                                   *)
(***************************************************************************)
EXTENDS Integers, Sequences, FiniteSets, TLC

\* ---------------------------------------------------------------- bounds
\* Part size the handle and the api are configured with (option
\* multipartPartSize), scaled down from 5 MiB.
multipartPartSize == 2
\* Largest object that exists at the key before the first call.
MaxSize == 5
\* Largest start offset passed to writeStream.
MaxStart == 6
\* Most bytes one data stream yields in total.
MaxData == 4
\* Most chunks one data stream yields.
MaxChunks == 2
\* Most write calls (handle or api) in one behaviour.
MaxOps == 1

\* Longest chunk the caller's data stream yields: one byte more than a part,
\* so that a single chunk can fill a part and spill into the next.
MaxChunk == multipartPartSize + 1

\* ------------------------------------------------------ program constants
\* MULTIPART_THRESHOLD of s3-files-api.ts (5 MiB), on the scale of the
\* part size above.
MULTIPART_THRESHOLD == 2

\* ---------------------------------------------------------------- bytes
ZeroByte == 0
OldByte(i) == 100 + i
NewByte(n, k) == 20 * n + k

Min(a, b) == IF a < b THEN a ELSE b

\* The object that exists before the first call: n patterned bytes.
OldBody(n) == [i \in 1..n |-> OldByte(i)]
\* The bytes number from+1 .. from+n of the payload of call number op.
PayloadBytes(op, from, n) == [i \in 1..n |-> NewByte(op, from + i)]

\* bytes [lo, hiExcl) of a body, 0-based (an HTTP range bytes=lo-(hiExcl-1))
Range(body, lo, hiExcl) == SubSeq(body, lo + 1, hiExcl)

VARIABLES
  \* --- the store, for the one key
  s3Exists,      \* an object exists at the key
  s3Body,        \* its bytes
  upState,       \* the multipart session: "none", "open", "completed", "aborted"
  upId,          \* UploadId of the latest session (0: none yet)
  upParts,       \* parts stored in the session: part number -> bytes
  \* --- S3FileHandle
  hState,        \* "none", "open", "closed"
  hSize,         \* S3FileHandle._size
  \* --- the call in progress
  pc,            \* position in the call
  start,         \* writeStream option start
  signal,        \* "none" (no signal given), "live", "aborted"
  parts,         \* parts[]: the part numbers pushed (their ETags)
  partNumber,
  bytesWritten,
  totalSize,
  buffer,        \* handle: Uint8Array(multipartPartSize); api: the chunks, joined
  bufferOffset,  \* handle: bufferOffset; api: bufferSize
  copyOffset,
  paddingOffset,
  chunk,         \* the chunk being consumed
  chunkOffset,
  apiChunks,     \* api: buffer.length, the number of chunks held
  partBuffer,    \* api: the part flushPart is sending
  isLast,        \* api: argument of flushPart
  uploadId,      \* api: uploadId (0: undefined)
  error,         \* the error caught by the catch block ("none": none)
  thrown,        \* the error the caller receives ("none": none)
  \* --- history
  ops,           \* write calls finished so far
  pulls,         \* chunks the data stream has yielded in this call
  yielded,       \* bytes the data stream has yielded in this call
  before,        \* the object when the call started
  log            \* requests issued by this call, in issue order

storeVars == <<s3Exists, s3Body, upState, upId, upParts>>
handleVars == <<hState, hSize>>
localVars == <<start, signal, parts, partNumber, bytesWritten, totalSize,
               buffer, bufferOffset, copyOffset, paddingOffset, chunk,
               chunkOffset, apiChunks, partBuffer, isLast, uploadId, error, thrown>>
histVars == <<ops, pulls, yielded, before, log>>
s3Vars == <<storeVars, handleVars, pc, localVars, histVars>>

VARIABLES
  \* --- the directory operations of one backend instance
  backend,       \* which implementation the instance is ("none": no instance)
  prefix,        \* S3FilesApi.prefix, the key prefix, slashes trimmed
  store,         \* core MemFilesApi.store: the Map, in insertion order
  entries,       \* webrun-files-mem MemFilesApi.entries: the Map, in insertion order
  objects,       \* the keys of the objects in the bucket
  calls,         \* calls made on the instance so far
  result,        \* the last call and what it returned
  mkdirs,        \* history: the paths mkdir has been called with
  was,           \* history: what existed as the last remove, copy or move began
  \* --- one file handle
  file,          \* the bytes of the platform's file the handle is opened on
  cachedSize,    \* the handle's _size
  wrote,         \* history: the handle calls made, with the content each found
  gone,          \* the handle's file was removed after the handle was opened
  \* --- operations in progress
  tasks          \* the calls under way: where each is, and what it holds
                 \* (the copy or move under way; the handles open on one path)

fsVars == <<backend, prefix, store, entries, objects, calls, result, mkdirs,
           was, file, cachedSize, wrote, gone, tasks>>
vars == <<s3Vars, fsVars>>

\* No remove call has just been made.
NoCensus == [dirs |-> {}, parents |-> {}, held |-> {}, bytes |-> {}]

\* No call has been made yet.
NoResult == [op |-> "none", path |-> <<>>, recursive |-> FALSE, out |-> <<>>]

\* The directory-operation variables while the streaming write is examined.
FsOff ==
  /\ backend = "none"
  /\ prefix = <<>>
  /\ store = <<>>
  /\ entries = <<>>
  /\ objects = {}
  /\ calls = 0
  /\ result = NoResult
  /\ mkdirs = {}
  /\ was = NoCensus
  /\ file = <<>>
  /\ cachedSize = 0
  /\ wrote = <<>>
  /\ gone = FALSE
  /\ tasks = <<>>

NoObject == [exists |-> FALSE, body |-> <<>>]
Snapshot == [exists |-> s3Exists, body |-> s3Body]

\* new Uint8Array(multipartPartSize)
NewBuffer == [i \in 1..multipartPartSize |-> ZeroByte]

Req(op, pn, lo, hi, ok) == [op |-> op, pn |-> pn, lo |-> lo, hi |-> hi, ok |-> ok]

CallInit ==
  /\ upState = "none"
  /\ upId = 0
  /\ upParts = <<>>
  /\ hState = "none"
  /\ hSize = 0
  /\ pc = "idle"
  /\ start = 0
  /\ signal = "none"
  /\ parts = <<>>
  /\ partNumber = 1
  /\ bytesWritten = 0
  /\ totalSize = 0
  /\ buffer = <<>>
  /\ bufferOffset = 0
  /\ copyOffset = 0
  /\ paddingOffset = 0
  /\ chunk = <<>>
  /\ chunkOffset = 0
  /\ apiChunks = 0
  /\ partBuffer = <<>>
  /\ isLast = FALSE
  /\ uploadId = 0
  /\ error = "none"
  /\ thrown = "none"
  /\ ops = 0
  /\ pulls = 0
  /\ yielded = 0
  /\ before = NoObject
  /\ log = <<>>

Init ==
  /\ \E n \in 0..MaxSize, e \in BOOLEAN :
       /\ s3Exists = (e \/ n > 0)
       /\ s3Body = OldBody(n)
  /\ CallInit
  /\ FsOff

\* ------------------------------------------------------------ the store
Put(f, k, v) == [x \in DOMAIN f \cup {k} |-> IF x = k THEN v ELSE f[x]]

\* The object CompleteMultipartUpload assembles: the listed parts, in list order.
RECURSIVE Assemble(_, _)
Assemble(ps, stored) ==
  IF ps = <<>> THEN <<>>
  ELSE stored[Head(ps)] \o Assemble(Tail(ps), stored)

\* CompleteMultipartUpload is accepted for a non-empty list of stored parts
\* in ascending part-number order.
CompleteValid(ps, stored) ==
  /\ Len(ps) > 0
  /\ \A i \in 1..Len(ps) : ps[i] \in DOMAIN stored
  /\ \A i \in 1..(Len(ps) - 1) : ps[i] < ps[i + 1]

\* UploadPartCopy is accepted for a source range inside the existing object.
CopyValid(lo, hi) == s3Exists /\ lo <= hi /\ hi < Len(s3Body)

\* A ranged GetObject is served when the object exists and the range starts
\* inside it; the range end is clipped to the object.
GetValid(lo) == s3Exists /\ lo < Len(s3Body)

\* Outcomes of client.send: a request carrying an aborted signal, or one the
\* store rejects, fails; any other may succeed or fail.
SendResults(carriesSignal, valid) ==
  IF (carriesSignal /\ signal = "aborted") \/ ~valid THEN {FALSE} ELSE BOOLEAN

ErrorOf(op, carriesSignal) ==
  IF carriesSignal /\ signal = "aborted" THEN "AbortError" ELSE op

\* ------------------------------------------------- S3FileHandle helpers
\* fullPartsEnd, with preserveEnd = Math.min(start, this._size)
PreserveEndWholeObject(st, size) == size

PreserveEnd(st, size) == Min(st, size)

FullPartsEndCeil(st, size) ==
  ((PreserveEnd(st, size) + multipartPartSize - 1) \div multipartPartSize)
    * multipartPartSize

FullPartsEnd(st, size) ==
  (PreserveEnd(st, size) \div multipartPartSize) * multipartPartSize

\* CopySourceRange `bytes=${copyOffset}-${copyEnd - 1}`, as <<first, last>>
CopySourceRangeInclusiveEnd(off) == <<off, off + multipartPartSize>>

CopySourceRange(off) == <<off, (off + multipartPartSize) - 1>>

\* partNumber++
NextPartNumberStuck(pn) == pn

NextPartNumber(pn) == pn + 1

\* spaceInBuffer
SpaceInBufferIgnoringOffset(off) == multipartPartSize

SpaceInBuffer(off) == multipartPartSize - off

\* paddingSize: start - this._size after preserved content, start for an
\* empty file
PaddingSize(st, size) == IF size > 0 THEN st - size ELSE st

\* buffer.set(bytes, off)
BufSet(buf, off, bytes) ==
  [i \in 1..Len(buf) |->
     IF i > off /\ i <= off + Len(bytes) THEN bytes[i - off] ELSE buf[i]]

\* where the try block continues once the session exists
AfterCreate(st, size) ==
  IF st > 0 /\ size > 0 THEN "copy" ELSE IF st > 0 THEN "pad" ELSE "stream"

\* where it continues after the preserved content is in place
AfterPreserve(st, size) == IF st > size THEN "pad" ELSE "stream"

\* this._size after a successful write
SizeAfterWriteNewBytesOnly(total, written) == written

SizeAfterWrite(total, written) == total

\* the catch block: abortMultipartUpload(UploadId), then throw error
CatchToRethrowOnly == "failed"

CatchTo == "abort"

\* what the caller receives once abortMultipartUpload has settled:
\* its rejection is swallowed by .catch(() => {})
AbortOutcomeUnswallowed(caught, abortOk) ==
  IF abortOk THEN caught ELSE "AbortMultipartUpload"

AbortOutcome(caught, abortOk) == caught

\* uploadPart(uploadId, pn, body, parts, signal): the request, its effect
\* on the session, and parts.push when an ETag came back
UploadPart(pn, body, ok) ==
  /\ log' = Append(log, Req("UploadPart", pn, 0, Len(body), ok))
  /\ IF ok
       THEN /\ upParts' = Put(upParts, pn, body)
            /\ parts' = Append(parts, pn)
       ELSE UNCHANGED <<upParts, parts>>

HandleRunning ==
  pc \in {"create", "copy", "download", "pad", "stream", "chunk", "last",
          "empty", "complete", "abort"}

\* ------------------------------------------------------- open and close
\* S3FilesApi.open: HeadObject, size 0 when the object is not found
Open ==
  /\ pc = "idle"
  /\ hState # "open"
  /\ hState' = "open"
  /\ hSize' = IF s3Exists THEN Len(s3Body) ELSE 0
  /\ UNCHANGED <<storeVars, pc, localVars, histVars>>
  /\ UNCHANGED fsVars

Close ==
  /\ pc = "idle"
  /\ hState = "open"
  /\ hState' = "closed"
  /\ UNCHANGED <<storeVars, hSize, pc, localVars, histVars>>
  /\ UNCHANGED fsVars

\* ------------------------------------------- S3FileHandle.writeStream
WriteStream ==
  /\ pc = "idle"
  /\ hState # "none"
  /\ ops < MaxOps
  /\ \E st \in 0..MaxStart, sig \in {"none", "live"} :
       /\ start' = st
       /\ signal' = sig
  /\ before' = Snapshot
  /\ IF hState = "closed"
       THEN /\ thrown' = "FileHandle is closed"
            /\ pc' = "failed"
       ELSE /\ thrown' = "none"
            /\ pc' = "create"
  /\ UNCHANGED <<storeVars, handleVars, parts, partNumber, bytesWritten,
                 totalSize, buffer, bufferOffset, copyOffset, paddingOffset,
                 chunk, chunkOffset, apiChunks, partBuffer, isLast, uploadId, error,
                 ops, pulls, yielded, log>>
  /\ UNCHANGED fsVars

\* CreateMultipartUpload, then the locals of streamingMultipartUpload
CreateUpload ==
  /\ pc = "create"
  /\ \E ok \in SendResults(TRUE, TRUE) :
       /\ log' = Append(log, Req("CreateMultipartUpload", 0, 0, 0, ok))
       /\ IF ok
            THEN /\ upState' = "open"
                 /\ upId' = upId + 1
                 /\ upParts' = <<>>
                 /\ buffer' = NewBuffer
                 /\ pc' = AfterCreate(start, hSize)
                 /\ UNCHANGED thrown
            ELSE /\ thrown' = ErrorOf("CreateMultipartUpload", TRUE)
                 /\ pc' = "failed"
                 /\ UNCHANGED <<upState, upId, upParts, buffer>>
  /\ UNCHANGED <<s3Exists, s3Body, handleVars, start, signal, parts,
                 partNumber, bytesWritten, totalSize, bufferOffset,
                 copyOffset, paddingOffset, chunk, chunkOffset, apiChunks,
                 partBuffer, isLast, uploadId, error, ops, pulls, yielded, before>>
  /\ UNCHANGED fsVars

\* one turn of the UploadPartCopy loop
CopyPart ==
  /\ pc = "copy"
  /\ IF copyOffset < FullPartsEnd(start, hSize)
       THEN IF signal = "aborted"
              THEN /\ error' = "Operation aborted"
                   /\ pc' = CatchTo
                   /\ UNCHANGED <<upParts, parts, partNumber, totalSize,
                                  copyOffset, log>>
              ELSE LET r == CopySourceRange(copyOffset) IN
                   \E ok \in SendResults(TRUE, CopyValid(r[1], r[2])) :
                     /\ log' = Append(log, Req("UploadPartCopy", partNumber,
                                               r[1], r[2], ok))
                     /\ IF ok
                          THEN /\ upParts' = Put(upParts, partNumber,
                                                 Range(s3Body, r[1], r[2] + 1))
                               /\ parts' = Append(parts, partNumber)
                               /\ partNumber' = NextPartNumber(partNumber)
                               /\ totalSize' = totalSize + multipartPartSize
                               /\ copyOffset' = copyOffset + multipartPartSize
                               /\ pc' = "copy"
                               /\ UNCHANGED error
                          ELSE /\ error' = ErrorOf("UploadPartCopy", TRUE)
                               /\ pc' = CatchTo
                               /\ UNCHANGED <<upParts, parts, partNumber,
                                              totalSize, copyOffset>>
       ELSE /\ pc' = "download"
            /\ UNCHANGED <<upParts, parts, partNumber, totalSize, copyOffset,
                           error, log>>
  /\ UNCHANGED <<s3Exists, s3Body, upState, upId, handleVars, start, signal,
                 bytesWritten, buffer, bufferOffset, paddingOffset, chunk,
                 chunkOffset, apiChunks, partBuffer, isLast, uploadId, thrown, ops, pulls,
                 yielded, before>>
  /\ UNCHANGED fsVars

\* downloadRange(fullPartsEnd, preserveEnd) into the buffer
DownloadRemainder ==
  /\ pc = "download"
  /\ LET lo == FullPartsEnd(start, hSize)
         hi == PreserveEnd(start, hSize)
     IN IF lo < hi
          THEN \E ok \in SendResults(TRUE, GetValid(lo)) :
                 /\ log' = Append(log, Req("GetObject", 0, lo, hi - 1, ok))
                 /\ IF ok
                      THEN LET remainingBytes ==
                                 Range(s3Body, lo, Min(hi, Len(s3Body)))
                           IN IF bufferOffset + Len(remainingBytes) > Len(buffer)
                                THEN /\ error' = "RangeError"
                                     /\ pc' = CatchTo
                                     /\ UNCHANGED <<buffer, bufferOffset,
                                                    totalSize>>
                                ELSE /\ buffer' = BufSet(buffer, bufferOffset,
                                                         remainingBytes)
                                     /\ bufferOffset' =
                                          bufferOffset + Len(remainingBytes)
                                     /\ totalSize' =
                                          totalSize + Len(remainingBytes)
                                     /\ pc' = AfterPreserve(start, hSize)
                                     /\ UNCHANGED error
                      ELSE /\ error' = ErrorOf("GetObject", TRUE)
                           /\ pc' = CatchTo
                           /\ UNCHANGED <<buffer, bufferOffset, totalSize>>
          ELSE /\ pc' = AfterPreserve(start, hSize)
               /\ UNCHANGED <<buffer, bufferOffset, totalSize, error, log>>
  /\ UNCHANGED <<storeVars, handleVars, start, signal, parts, partNumber,
                 bytesWritten, copyOffset, paddingOffset, chunk, chunkOffset,
                 apiChunks, partBuffer, isLast, uploadId, thrown, ops, pulls, yielded,
                 before>>
  /\ UNCHANGED fsVars

\* one turn of either zero-padding loop
Pad ==
  /\ pc = "pad"
  /\ IF paddingOffset < PaddingSize(start, hSize)
       THEN LET spaceInBuffer == SpaceInBuffer(bufferOffset)
                bytesToAdd == Min(spaceInBuffer,
                                  PaddingSize(start, hSize) - paddingOffset)
                filled == bufferOffset + bytesToAdd
            IN /\ paddingOffset' = paddingOffset + bytesToAdd
               /\ totalSize' = totalSize + bytesToAdd
               /\ IF filled >= multipartPartSize
                    THEN \E ok \in SendResults(TRUE, upState = "open") :
                           /\ UploadPart(partNumber, buffer, ok)
                           /\ IF ok
                                THEN /\ partNumber' = NextPartNumber(partNumber)
                                     /\ buffer' = NewBuffer
                                     /\ bufferOffset' = 0
                                     /\ pc' = "pad"
                                     /\ UNCHANGED error
                                ELSE /\ bufferOffset' = filled
                                     /\ error' = ErrorOf("UploadPart", TRUE)
                                     /\ pc' = CatchTo
                                     /\ UNCHANGED <<partNumber, buffer>>
                    ELSE /\ bufferOffset' = filled
                         /\ pc' = "pad"
                         /\ UNCHANGED <<upParts, parts, partNumber, buffer,
                                        error, log>>
       ELSE /\ pc' = "stream"
            /\ UNCHANGED <<upParts, parts, partNumber, totalSize, buffer,
                           bufferOffset, paddingOffset, error, log>>
  /\ UNCHANGED <<s3Exists, s3Body, upState, upId, handleVars, start, signal,
                 bytesWritten, copyOffset, chunk, chunkOffset, apiChunks,
                 partBuffer, isLast, uploadId, thrown, ops, pulls, yielded, before>>
  /\ UNCHANGED fsVars

\* what the caller's data stream does when asked for the next chunk
StreamResults ==
  {<<"throw", 0>>, <<"end", 0>>}
    \cup (IF pulls < MaxChunks
            THEN {<<"chunk", n>> : n \in 0..Min(MaxChunk, MaxData - yielded)}
            ELSE {})

\* for await (const chunk of toBinaryAsyncIterable(data)), and the signal check
NextChunk ==
  /\ pc = "stream"
  /\ \E r \in StreamResults :
       IF r[1] = "throw"
         THEN /\ error' = "stream error"
              /\ pc' = CatchTo
              /\ UNCHANGED <<chunk, chunkOffset, pulls, yielded>>
         ELSE IF r[1] = "end"
           THEN /\ pc' = "last"
                /\ UNCHANGED <<chunk, chunkOffset, pulls, yielded, error>>
           ELSE /\ chunk' = PayloadBytes(ops + 1, yielded, r[2])
                /\ pulls' = pulls + 1
                /\ yielded' = yielded + r[2]
                /\ chunkOffset' = 0
                /\ IF signal = "aborted"
                     THEN /\ error' = "Operation aborted"
                          /\ pc' = CatchTo
                     ELSE /\ pc' = "chunk"
                          /\ UNCHANGED error
  /\ UNCHANGED <<storeVars, handleVars, start, signal, parts, partNumber,
                 bytesWritten, totalSize, buffer, bufferOffset, copyOffset,
                 paddingOffset, apiChunks, partBuffer, isLast, uploadId, thrown, ops,
                 before, log>>
  /\ UNCHANGED fsVars

\* one turn of while (chunkOffset < chunk.length)
CopyChunk ==
  /\ pc = "chunk"
  /\ IF chunkOffset < Len(chunk)
       THEN LET spaceInBuffer == SpaceInBuffer(bufferOffset)
                bytesToCopy == Min(spaceInBuffer, Len(chunk) - chunkOffset)
                piece == SubSeq(chunk, chunkOffset + 1, chunkOffset + bytesToCopy)
                filled == bufferOffset + bytesToCopy
                set == BufSet(buffer, bufferOffset, piece)
            IN IF filled > Len(buffer)
                 THEN /\ error' = "RangeError"
                      /\ pc' = CatchTo
                      /\ UNCHANGED <<upParts, parts, partNumber, bytesWritten,
                                     totalSize, buffer, bufferOffset,
                                     chunkOffset, log>>
                 ELSE /\ chunkOffset' = chunkOffset + bytesToCopy
                      /\ bytesWritten' = bytesWritten + bytesToCopy
                      /\ totalSize' = totalSize + bytesToCopy
                      /\ IF filled >= multipartPartSize
                           THEN \E ok \in SendResults(TRUE, upState = "open") :
                                  /\ UploadPart(partNumber, set, ok)
                                  /\ IF ok
                                       THEN /\ partNumber' = NextPartNumber(partNumber)
                                            /\ buffer' = NewBuffer
                                            /\ bufferOffset' = 0
                                            /\ pc' = "chunk"
                                            /\ UNCHANGED error
                                       ELSE /\ buffer' = set
                                            /\ bufferOffset' = filled
                                            /\ error' = ErrorOf("UploadPart", TRUE)
                                            /\ pc' = CatchTo
                                            /\ UNCHANGED partNumber
                           ELSE /\ buffer' = set
                                /\ bufferOffset' = filled
                                /\ pc' = "chunk"
                                /\ UNCHANGED <<upParts, parts, partNumber,
                                               error, log>>
       ELSE /\ pc' = "stream"
            /\ UNCHANGED <<upParts, parts, partNumber, bytesWritten, totalSize,
                           buffer, bufferOffset, chunkOffset, error, log>>
  /\ UNCHANGED <<s3Exists, s3Body, upState, upId, handleVars, start, signal,
                 copyOffset, paddingOffset, chunk, apiChunks, partBuffer, isLast, uploadId,
                 thrown, ops, pulls, yielded, before>>
  /\ UNCHANGED fsVars

\* if (bufferOffset > 0) upload buffer.subarray(0, bufferOffset)
LastPart ==
  /\ pc = "last"
  /\ IF bufferOffset > 0
       THEN \E ok \in SendResults(TRUE, upState = "open") :
              /\ UploadPart(partNumber, SubSeq(buffer, 1, bufferOffset), ok)
              /\ IF ok
                   THEN /\ pc' = "empty"
                        /\ UNCHANGED error
                   ELSE /\ error' = ErrorOf("UploadPart", TRUE)
                        /\ pc' = CatchTo
       ELSE /\ pc' = "empty"
            /\ UNCHANGED <<upParts, parts, error, log>>
  /\ UNCHANGED <<s3Exists, s3Body, upState, upId, handleVars, start, signal,
                 partNumber, bytesWritten, totalSize, buffer, bufferOffset,
                 copyOffset, paddingOffset, chunk, chunkOffset, apiChunks,
                 partBuffer, isLast, uploadId, thrown, ops, pulls, yielded, before>>
  /\ UNCHANGED fsVars

\* the empty-file case written with a plain PutObject of zero bytes instead
\* of an empty part
EmptyPartPutObject ==
  /\ pc = "empty"
  /\ IF Len(parts) = 0
       THEN \E ok \in SendResults(TRUE, TRUE) :
              /\ log' = Append(log, Req("PutObject", 0, 0, 0, ok))
              /\ IF ok
                   THEN /\ s3Exists' = TRUE
                        /\ s3Body' = <<>>
                        /\ pc' = "complete"
                        /\ UNCHANGED error
                   ELSE /\ error' = ErrorOf("PutObject", TRUE)
                        /\ pc' = CatchTo
                        /\ UNCHANGED <<s3Exists, s3Body>>
       ELSE /\ pc' = "complete"
            /\ UNCHANGED <<s3Exists, s3Body, error, log>>
  /\ UNCHANGED <<upState, upId, upParts, handleVars, start, signal, parts,
                 partNumber, bytesWritten, totalSize, buffer, bufferOffset,
                 copyOffset, paddingOffset, chunk, chunkOffset, apiChunks,
                 partBuffer, isLast, uploadId, thrown, ops, pulls, yielded,
                 before>>
  /\ UNCHANGED fsVars

\* if (parts.length === 0) upload one empty part, numbered 1
EmptyPart ==
  /\ pc = "empty"
  /\ IF Len(parts) = 0
       THEN \E ok \in SendResults(TRUE, upState = "open") :
              /\ UploadPart(1, <<>>, ok)
              /\ IF ok
                   THEN /\ pc' = "complete"
                        /\ UNCHANGED error
                   ELSE /\ error' = ErrorOf("UploadPart", TRUE)
                        /\ pc' = CatchTo
       ELSE /\ pc' = "complete"
            /\ UNCHANGED <<upParts, parts, error, log>>
  /\ UNCHANGED <<s3Exists, s3Body, upState, upId, handleVars, start, signal,
                 partNumber, bytesWritten, totalSize, buffer, bufferOffset,
                 copyOffset, paddingOffset, chunk, chunkOffset, apiChunks,
                 partBuffer, isLast, uploadId, thrown, ops, pulls, yielded, before>>
  /\ UNCHANGED fsVars

\* CompleteMultipartUpload, this._size = totalSize, return bytesWritten
Complete ==
  /\ pc = "complete"
  /\ \E ok \in SendResults(TRUE, upState = "open" /\ CompleteValid(parts, upParts)) :
       /\ log' = Append(log, Req("CompleteMultipartUpload", 0, 0, Len(parts), ok))
       /\ IF ok
            THEN /\ s3Exists' = TRUE
                 /\ s3Body' = Assemble(parts, upParts)
                 /\ upState' = "completed"
                 /\ hSize' = SizeAfterWrite(totalSize, bytesWritten)
                 /\ pc' = "done"
                 /\ UNCHANGED error
            ELSE /\ error' = ErrorOf("CompleteMultipartUpload", TRUE)
                 /\ pc' = CatchTo
                 /\ UNCHANGED <<s3Exists, s3Body, upState, hSize>>
  /\ UNCHANGED <<upId, upParts, hState, start, signal, parts, partNumber,
                 bytesWritten, totalSize, buffer, bufferOffset, copyOffset,
                 paddingOffset, chunk, chunkOffset, apiChunks, partBuffer, isLast,
                 uploadId, thrown, ops, pulls, yielded, before>>
  /\ UNCHANGED fsVars

\* catch: await abortMultipartUpload(UploadId); throw error
Abort ==
  /\ pc = "abort"
  /\ \E ok \in SendResults(FALSE, upState = "open") :
       /\ log' = Append(log, Req("AbortMultipartUpload", 0, 0, 0, ok))
       /\ upState' = IF ok THEN "aborted" ELSE upState
       /\ thrown' = AbortOutcome(error, ok)
  /\ pc' = "failed"
  /\ UNCHANGED <<s3Exists, s3Body, upId, upParts, handleVars, start, signal,
                 parts, partNumber, bytesWritten, totalSize, buffer,
                 bufferOffset, copyOffset, paddingOffset, chunk, chunkOffset,
                 apiChunks, partBuffer, isLast, uploadId, error, ops, pulls, yielded,
                 before>>
  /\ UNCHANGED fsVars

\* the caller's AbortSignal fires while the write is running (at "create":
\* before the first request, as for a signal that was aborted beforehand)
SignalAbort ==
  /\ HandleRunning
  /\ signal = "live"
  /\ signal' = "aborted"
  /\ UNCHANGED <<storeVars, handleVars, pc, start, parts, partNumber,
                 bytesWritten, totalSize, buffer, bufferOffset, copyOffset,
                 paddingOffset, chunk, chunkOffset, apiChunks, partBuffer, isLast,
                 uploadId, error, thrown, histVars>>
  /\ UNCHANGED fsVars

\* ------------------------------------------------------ S3FilesApi.write
\* where write continues when flushPart returns: the chunk loop after
\* flushPart(false); after flushPart(true) the completion, if a session exists
AfterFlush(last, id) ==
  IF last THEN (IF id # 0 THEN "a_complete" ELSE "a_done") ELSE "a_stream"

\* flushPart chooses a plain PutObject for a small only-and-last part
UsePutObject(id, last, partLength) ==
  id = 0 /\ last /\ partLength < MULTIPART_THRESHOLD

ApiWrite ==
  /\ pc = "idle"
  /\ hState # "open"
  /\ ops < MaxOps
  /\ pc' = "a_stream"
  /\ before' = Snapshot
  /\ UNCHANGED <<storeVars, handleVars, localVars, ops, pulls, yielded, log>>
  /\ UNCHANGED fsVars

\* for await (const chunk of content): push, count, flush at the part size
ApiNextChunk ==
  /\ pc = "a_stream"
  /\ \E r \in StreamResults :
       IF r[1] = "throw"
         THEN /\ error' = "stream error"
              /\ pc' = "a_catch"
              /\ UNCHANGED <<buffer, bufferOffset, apiChunks, isLast, pulls,
                             yielded>>
         ELSE IF r[1] = "end"
           THEN /\ isLast' = TRUE
                /\ pc' = "a_flush"
                /\ UNCHANGED <<buffer, bufferOffset, apiChunks, pulls, yielded,
                               error>>
           ELSE /\ buffer' = buffer \o PayloadBytes(ops + 1, yielded, r[2])
                /\ apiChunks' = apiChunks + 1
                /\ bufferOffset' = bufferOffset + r[2]
                /\ pulls' = pulls + 1
                /\ yielded' = yielded + r[2]
                /\ IF bufferOffset + r[2] >= multipartPartSize
                     THEN /\ isLast' = FALSE
                          /\ pc' = "a_flush"
                     ELSE /\ pc' = "a_stream"
                          /\ UNCHANGED isLast
                /\ UNCHANGED error
  /\ UNCHANGED <<storeVars, handleVars, start, signal, parts, partNumber,
                 bytesWritten, totalSize, copyOffset, paddingOffset, chunk,
                 chunkOffset, partBuffer, uploadId, thrown, ops, before, log>>
  /\ UNCHANGED fsVars

\* flushPart, up to its first request
ApiFlush ==
  /\ pc = "a_flush"
  /\ IF apiChunks = 0
       THEN /\ pc' = AfterFlush(isLast, uploadId)
            /\ UNCHANGED <<buffer, bufferOffset, apiChunks, partBuffer>>
       ELSE /\ partBuffer' = buffer
            /\ buffer' = <<>>
            /\ apiChunks' = 0
            /\ bufferOffset' = 0
            /\ pc' = IF UsePutObject(uploadId, isLast, Len(buffer))
                       THEN "a_put"
                       ELSE IF uploadId = 0 THEN "a_create" ELSE "a_upload"
  /\ UNCHANGED <<storeVars, handleVars, start, signal, parts, partNumber,
                 bytesWritten, totalSize, copyOffset, paddingOffset, chunk,
                 chunkOffset, isLast, uploadId, error, thrown, histVars>>
  /\ UNCHANGED fsVars

\* flushPart: PutObject of the whole content
ApiPut ==
  /\ pc = "a_put"
  /\ \E ok \in SendResults(FALSE, TRUE) :
       /\ log' = Append(log, Req("PutObject", 0, 0, Len(partBuffer), ok))
       /\ IF ok
            THEN /\ s3Exists' = TRUE
                 /\ s3Body' = partBuffer
                 /\ pc' = AfterFlush(isLast, uploadId)
                 /\ UNCHANGED error
            ELSE /\ error' = ErrorOf("PutObject", FALSE)
                 /\ pc' = "a_catch"
                 /\ UNCHANGED <<s3Exists, s3Body>>
  /\ UNCHANGED <<upState, upId, upParts, handleVars, start, signal, parts,
                 partNumber, bytesWritten, totalSize, buffer, bufferOffset,
                 copyOffset, paddingOffset, chunk, chunkOffset, apiChunks,
                 partBuffer, isLast, uploadId, thrown, ops, pulls, yielded,
                 before>>
  /\ UNCHANGED fsVars

\* flushPart: CreateMultipartUpload when no session exists yet
ApiCreate ==
  /\ pc = "a_create"
  /\ \E ok \in SendResults(FALSE, TRUE) :
       /\ log' = Append(log, Req("CreateMultipartUpload", 0, 0, 0, ok))
       /\ IF ok
            THEN /\ upState' = "open"
                 /\ upId' = upId + 1
                 /\ upParts' = <<>>
                 /\ uploadId' = upId + 1
                 /\ pc' = "a_upload"
                 /\ UNCHANGED error
            ELSE /\ error' = ErrorOf("CreateMultipartUpload", FALSE)
                 /\ pc' = "a_catch"
                 /\ UNCHANGED <<upState, upId, upParts, uploadId>>
  /\ UNCHANGED <<s3Exists, s3Body, handleVars, start, signal, parts,
                 partNumber, bytesWritten, totalSize, buffer, bufferOffset,
                 copyOffset, paddingOffset, chunk, chunkOffset, apiChunks,
                 partBuffer, isLast, thrown, ops, pulls, yielded, before>>
  /\ UNCHANGED fsVars

\* flushPart: UploadPart of partBuffer, parts.push, partNumber++
ApiUpload ==
  /\ pc = "a_upload"
  /\ \E ok \in SendResults(FALSE, upState = "open") :
       /\ UploadPart(partNumber, partBuffer, ok)
       /\ IF ok
            THEN /\ partNumber' = NextPartNumber(partNumber)
                 /\ pc' = AfterFlush(isLast, uploadId)
                 /\ UNCHANGED error
            ELSE /\ error' = ErrorOf("UploadPart", FALSE)
                 /\ pc' = "a_catch"
                 /\ UNCHANGED partNumber
  /\ UNCHANGED <<s3Exists, s3Body, upState, upId, handleVars, start, signal,
                 bytesWritten, totalSize, buffer, bufferOffset, copyOffset,
                 paddingOffset, chunk, chunkOffset, apiChunks, partBuffer,
                 isLast, uploadId, thrown, ops, pulls, yielded, before>>
  /\ UNCHANGED fsVars

\* CompleteMultipartUpload with the parts (already in part-number order)
ApiComplete ==
  /\ pc = "a_complete"
  /\ \E ok \in SendResults(FALSE, upState = "open" /\ CompleteValid(parts, upParts)) :
       /\ log' = Append(log, Req("CompleteMultipartUpload", 0, 0, Len(parts), ok))
       /\ IF ok
            THEN /\ s3Exists' = TRUE
                 /\ s3Body' = Assemble(parts, upParts)
                 /\ upState' = "completed"
                 /\ pc' = "a_done"
                 /\ UNCHANGED error
            ELSE /\ error' = ErrorOf("CompleteMultipartUpload", FALSE)
                 /\ pc' = "a_catch"
                 /\ UNCHANGED <<s3Exists, s3Body, upState>>
  /\ UNCHANGED <<upId, upParts, handleVars, start, signal, parts, partNumber,
                 bytesWritten, totalSize, buffer, bufferOffset, copyOffset,
                 paddingOffset, chunk, chunkOffset, apiChunks, partBuffer,
                 isLast, uploadId, thrown, ops, pulls, yielded, before>>
  /\ UNCHANGED fsVars

\* what the caller of write receives: the abort's own failure is ignored
ApiAbortOutcome(caught, abortOk) == caught

\* catch: AbortMultipartUpload if a session exists, then throw error
ApiCatch ==
  /\ pc = "a_catch"
  /\ IF uploadId # 0
       THEN \E ok \in SendResults(FALSE, upState = "open") :
              /\ log' = Append(log, Req("AbortMultipartUpload", 0, 0, 0, ok))
              /\ upState' = IF ok THEN "aborted" ELSE upState
              /\ thrown' = ApiAbortOutcome(error, ok)
       ELSE /\ thrown' = error
            /\ UNCHANGED <<upState, log>>
  /\ pc' = "a_failed"
  /\ UNCHANGED <<s3Exists, s3Body, upId, upParts, handleVars, start, signal,
                 parts, partNumber, bytesWritten, totalSize, buffer,
                 bufferOffset, copyOffset, paddingOffset, chunk, chunkOffset,
                 apiChunks, partBuffer, isLast, uploadId, error, ops, pulls,
                 yielded, before>>
  /\ UNCHANGED fsVars

\* the call has settled; the caller goes on
Return ==
  /\ pc \in {"done", "failed", "a_done", "a_failed"}
  /\ pc' = "idle"
  /\ ops' = ops + 1
  /\ start' = 0
  /\ signal' = "none"
  /\ parts' = <<>>
  /\ partNumber' = 1
  /\ bytesWritten' = 0
  /\ totalSize' = 0
  /\ buffer' = <<>>
  /\ bufferOffset' = 0
  /\ copyOffset' = 0
  /\ paddingOffset' = 0
  /\ chunk' = <<>>
  /\ chunkOffset' = 0
  /\ apiChunks' = 0
  /\ partBuffer' = <<>>
  /\ isLast' = FALSE
  /\ uploadId' = 0
  /\ error' = "none"
  /\ thrown' = "none"
  /\ pulls' = 0
  /\ yielded' = 0
  /\ before' = NoObject
  /\ log' = <<>>
  /\ UNCHANGED <<storeVars, handleVars>>
  /\ UNCHANGED fsVars

Next ==
  \/ Open
  \/ Close
  \/ WriteStream
  \/ CreateUpload
  \/ CopyPart
  \/ DownloadRemainder
  \/ Pad
  \/ NextChunk
  \/ CopyChunk
  \/ LastPart
  \/ EmptyPart
  \/ Complete
  \/ Abort
  \/ SignalAbort
  \/ ApiWrite
  \/ ApiNextChunk
  \/ ApiFlush
  \/ ApiPut
  \/ ApiCreate
  \/ ApiUpload
  \/ ApiComplete
  \/ ApiCatch
  \/ Return

Spec == Init /\ [][Next]_vars

\* ================================================================ claims
HandleCall == HandleRunning \/ pc \in {"done", "failed"}

ApiCall ==
  pc \in {"a_stream", "a_flush", "a_put", "a_create", "a_upload",
          "a_complete", "a_catch", "a_done", "a_failed"}

\* a multipart session was created by the call in progress
SessionCreated ==
  \E i \in 1..Len(log) : log[i].op = "CreateMultipartUpload" /\ log[i].ok

IsPartReq(r) == r.op \in {"UploadPartCopy", "UploadPart"}

\* the part requests issued so far, in issue order
PartReqs == SelectSeq(log, IsPartReq)

\* bytes a part request puts into its part
PartLen(r) == IF r.op = "UploadPartCopy" THEN r.hi - r.lo + 1 ELSE r.hi

Count(op) == Cardinality({i \in 1..Len(log) : log[i].op = op})

LastReq == log[Len(log)]

\* size of the object when the call started
Size0 == IF before.exists THEN Len(before.body) ELSE 0

\* the whole payload the data stream has yielded in this call
Payload == PayloadBytes(ops + 1, 0, yielded)

\* C1: when a step fails after the multipart session was created (part-copy,
\* ranged download, part upload, the caller's stream, completion), exactly one
\* AbortMultipartUpload is issued as the last request, its own failure is
\* swallowed, and the caller receives the error of the failed step, in the
\* handle's streaming write and in S3FilesApi.write alike.
C1_AbortOnFailure ==
  (pc \in {"failed", "a_failed"} /\ SessionCreated) =>
    /\ LastReq.op = "AbortMultipartUpload"
    /\ Count("AbortMultipartUpload") = 1
    /\ error # "none"
    /\ thrown = error
    /\ LET failedStep == log[Len(log) - 1]
       IN IF ~failedStep.ok
            THEN thrown \in {failedStep.op, "AbortError"}
            ELSE thrown \in {"stream error", "Operation aborted", "RangeError"}

\* a part-copy failed, the abort request failed too, the caller got the
\* part-copy error
C1_Witness ==
  /\ pc = "failed"
  /\ SessionCreated
  /\ LastReq.op = "AbortMultipartUpload"
  /\ ~LastReq.ok
  /\ thrown = "UploadPartCopy"

\* C2: while a handle write is running, and after it failed or was cancelled,
\* the object at the key is the object that was there when the write started;
\* at most one CompleteMultipartUpload is issued, nothing but the abort
\* follows it, and a successful write ends with it.
C2_PriorStateUntilComplete ==
  /\ (HandleRunning \/ pc = "failed") => Snapshot = before
  /\ HandleCall =>
       /\ Count("CompleteMultipartUpload") <= 1
       /\ \A i \in 1..Len(log) :
            log[i].op = "CompleteMultipartUpload" =>
              \A j \in (i + 1)..Len(log) : log[j].op = "AbortMultipartUpload"
  /\ pc = "done" => (LastReq.op = "CompleteMultipartUpload" /\ LastReq.ok)

\* two parts were uploaded over a non-empty object, the completion failed,
\* the object is untouched
C2_Witness ==
  /\ pc = "failed"
  /\ error = "CompleteMultipartUpload"
  /\ Len(parts) >= 2
  /\ before.exists
  /\ Len(before.body) > 0
  /\ Snapshot = before

\* C3: a successful write at 0 < start < N over an object of N bytes, N larger
\* than one part, leaves old[0..start) ++ newData, which is the concatenation
\* of the completed parts in part order.
C3_PreservePrefixThenNewData ==
  (/\ pc = "done"
   /\ before.exists
   /\ Len(before.body) > multipartPartSize
   /\ 0 < start
   /\ start < Len(before.body)) =>
    /\ s3Body = SubSeq(before.body, 1, start) \o Payload
    /\ Assemble(parts, upParts) = SubSeq(before.body, 1, start) \o Payload

\* the preserved prefix needed a part-copy and a ranged download, and the
\* new data is longer than a part
C3_Witness ==
  /\ pc = "done"
  /\ before.exists
  /\ start > multipartPartSize
  /\ start % multipartPartSize # 0
  /\ start < Len(before.body)
  /\ yielded > multipartPartSize

\* C4: with start > 0 on a non-empty object every UploadPartCopy copies exactly
\* one part size from inside [0, floor(min(start, size) / partSize) * partSize);
\* the preserved bytes beyond that boundary, fewer than a part, come from one
\* ranged GetObject; and no part-copy is issued in any other case.
C4_CopyOnlyWholeParts ==
  HandleCall =>
    LET preserveEnd == IF start < Size0 THEN start ELSE Size0
        boundary == (preserveEnd \div multipartPartSize) * multipartPartSize
    IN /\ \A i \in 1..Len(log) :
            log[i].op = "UploadPartCopy" =>
              /\ start > 0
              /\ Size0 > 0
              /\ log[i].hi - log[i].lo + 1 = multipartPartSize
              /\ log[i].lo >= 0
              /\ log[i].hi < boundary
       /\ \A i \in 1..Len(log) :
            log[i].op = "GetObject" =>
              /\ log[i].lo = boundary
              /\ log[i].hi = preserveEnd - 1
              /\ log[i].lo <= log[i].hi
              /\ log[i].hi - log[i].lo + 1 < multipartPartSize
       /\ (pc = "done" /\ start > 0 /\ Size0 > 0) =>
            /\ Count("UploadPartCopy") = boundary \div multipartPartSize
            /\ Count("GetObject") = IF boundary < preserveEnd THEN 1 ELSE 0

\* two whole parts were copied and the remainder was downloaded
C4_Witness ==
  /\ pc = "done"
  /\ Count("UploadPartCopy") = 2
  /\ Count("GetObject") = 1

C6_NonFinalPartsFull ==
  HandleCall =>
    LET pr == PartReqs
    IN /\ \A i \in 1..(Len(pr) - 1) : PartLen(pr[i]) = multipartPartSize
       /\ (pc = "done" /\ start = 0 /\ yielded = multipartPartSize + 1) =>
            [i \in 1..Len(pr) |-> PartLen(pr[i])] = <<multipartPartSize, 1>>

\* partSize + 1 bytes were written from offset 0
C6_Witness ==
  /\ pc = "done"
  /\ start = 0
  /\ yielded = multipartPartSize + 1
  /\ Len(parts) = 2

\* C7: at every point of a handle write the part buffer is no longer than
\* one part and holds at most multipartPartSize bytes.
C7_BufferBounded ==
  HandleCall =>
    /\ Len(buffer) <= multipartPartSize
    /\ bufferOffset <= multipartPartSize
    /\ bufferOffset >= 0

\* the buffer is full while more than a part of payload has arrived
C7_Witness ==
  /\ pc = "abort"
  /\ bufferOffset = multipartPartSize
  /\ yielded > multipartPartSize

\* C8: a zero-length payload written from offset 0, whether the source yields
\* no chunk or only empty chunks, through the handle or through
\* S3FilesApi.write, ends with a zero-byte object at the key.
C8_EmptyWriteLeavesEmptyObject ==
  (((pc = "done" /\ start = 0) \/ pc = "a_done") /\ yielded = 0) =>
    (s3Exists /\ s3Body = <<>>)

\* C9: a handle write during which the signal fired ends in failure, and
\* when its session had been created the AbortMultipartUpload request has been
\* issued, as the last request, by the time the failure reaches the caller.
C9_AbortBeforeFailureOnCancel ==
  /\ (pc \in {"done", "failed"} /\ signal = "aborted") => pc = "failed"
  /\ (pc = "failed" /\ signal = "aborted" /\ SessionCreated) =>
       (LastReq.op = "AbortMultipartUpload" /\ thrown # "none")

\* the signal was seen between chunks, after parts had been uploaded
C9_Witness ==
  /\ pc = "failed"
  /\ signal = "aborted"
  /\ thrown = "Operation aborted"
  /\ SessionCreated
  /\ Len(parts) >= 1
  /\ yielded > 0

\* C10: after a successful writeStream(data, {start}) the handle's size is
\* start + len(data), which is the length of the object, and the call
\* returns len(data).
C10_SizeAfterWrite ==
  pc = "done" =>
    /\ hSize = start + yielded
    /\ hSize = Len(s3Body)
    /\ bytesWritten = yielded

\* preserved prefix, zero padding and new bytes all present
C10_Witness ==
  /\ pc = "done"
  /\ Size0 > 0
  /\ start > Size0
  /\ yielded > 0

\* ===================================================================
\* Directories: list, stats, remove, mkdir and write on the in-memory
\* stores and on S3.  A JavaScript string is the sequence of its characters.
\* ===================================================================

\* The listing never shows more than the calls of one run could create.
MaxCalls == 3

\* The bytes one chunk of a read stream holds at most (8192 in the source),
\* and the end of a read without the end option.
bufferSize == 2
Infinity == 1000

\* Date.now() at the moment an entry is stored: a positive timestamp.
Now == 1

\* s.startsWith(pre)
startsWith(s, pre) == Len(pre) <= Len(s) /\ SubSeq(s, 1, Len(pre)) = pre

\* s.endsWith(suf)
endsWith(s, suf) ==
  Len(suf) <= Len(s) /\ SubSeq(s, Len(s) - Len(suf) + 1, Len(s)) = suf

\* s.substring(n)
substring(s, n) == SubSeq(s, n + 1, Len(s))

\* s.indexOf("/"), counted from 1; 0 when there is none (JavaScript: -1)
indexOfSlash(s) ==
  IF \A i \in 1..Len(s) : s[i] # "/" THEN 0
  ELSE CHOOSE k \in 1..Len(s) : s[k] = "/" /\ \A j \in 1..(k - 1) : s[j] # "/"

\* s.split("/")
RECURSIVE split(_)
split(s) ==
  IF indexOfSlash(s) = 0 THEN <<s>>
  ELSE <<SubSeq(s, 1, indexOfSlash(s) - 1)>> \o split(substring(s, indexOfSlash(s)))

\* segments.join("/")
RECURSIVE join(_)
join(segments) ==
  IF segments = <<>> THEN <<>>
  ELSE IF Len(segments) = 1 THEN segments[1]
  ELSE segments[1] \o <<"/">> \o join(Tail(segments))

IsSegment(s) == s # <<>> /\ s # <<".">>

normalizePath(filePath) ==
  LET segments == SelectSeq(split(filePath), IsSegment)
  IN IF segments = <<>> THEN <<"/">> ELSE <<"/">> \o join(segments)

joinPath(a, b) == normalizePath(join(<<a, b>>))

\* The paths the calls are addressed at: the root, a file and a directory
\* on the first level, and two levels beneath the directory.
Paths ==
  { normalizePath(join(segs)) :
      segs \in { <<>>, << <<"a">> >>, << <<"b">> >>,
                 << <<"a">>, <<"a">> >>, << <<"a">>, <<"b">> >>,
                 << <<"a">>, <<"b">>, <<"a">> >>, << <<"a", "a">> >> } }

Root == <<"/">>

\* The contents written by the directory scenarios.
Contents == { <<>>, <<Now>> }

\* ---- a JavaScript Map from path to entry: its entries in insertion order
FileEntry(p, content) ==
  [path |-> p, kind |-> "file", content |-> content, lastModified |-> Now]
DirEntry(p) ==
  [path |-> p, kind |-> "directory", content |-> <<>>, lastModified |-> Now]

Has(m, p) == \E i \in 1..Len(m) : m[i].path = p
Get(m, p) == m[CHOOSE i \in 1..Len(m) : m[i].path = p]
\* set keeps the position of a key that is present and appends a new key
MapSet(m, e) ==
  IF Has(m, e.path)
  THEN [i \in 1..Len(m) |-> IF m[i].path = e.path THEN e ELSE m[i]]
  ELSE Append(m, e)
MapDelete(m, p) ==
  [i \in 1..(Len(m) - (IF Has(m, p) THEN 1 ELSE 0)) |->
     IF \E j \in 1..i : m[j].path = p THEN m[i + 1] ELSE m[i]]
Keys(m) == { m[i].path : i \in 1..Len(m) }

\* What list yields and stats returns.
Info(kind, p, lastModified) ==
  [kind |-> kind, path |-> p, lastModified |-> lastModified]
InfoOf(e) == Info(e.kind, e.path, e.lastModified)
NotFound == Info("undefined", <<>>, 0)

\* ------------------------------------------------- core MemFilesApi
\* The chunks of a stream, merged into one array.
RECURSIVE Merge(_)
Merge(chunks) ==
  IF chunks = <<>> THEN <<>> ELSE chunks[1] \o Merge(Tail(chunks))

Zeros(n) == [i \in 1..n |-> 0]

\* MemFileHandle.getOrCreateFile: the store once the handle's path holds a file.
getOrCreateFile(m, p) ==
  IF Has(m, p) /\ Get(m, p).kind = "file" THEN m ELSE MapSet(m, FileEntry(p, <<>>))

\* MemFileHandle.createWriteStream: the content it leaves, given the content
\* it found, the start option and the chunks of the stream.
KeptPrefixWhole(content, st) ==
  IF st > 0 /\ Len(content) > 0 THEN <<content>> ELSE <<>>
KeptPrefix(content, st) ==
  IF st > 0 /\ Len(content) > 0
  THEN <<SubSeq(content, 1, Min(st, Len(content)))>> ELSE <<>>
ZeroPadding(content, st) ==
  IF st > Len(content) THEN <<Zeros(st - Len(content))>> ELSE <<>>
createWriteStream(content, st, chunks) ==
  Merge(KeptPrefix(content, st) \o ZeroPadding(content, st) \o chunks)

\* MemFileHandle.appendFile: the content it leaves.
appendFileReplacing(content, chunks) == Merge(chunks)
appendFile(content, chunks) == Merge(<<content>> \o chunks)

\* MemFilesApi.list
ListPrefix(normalized) ==
  IF normalized = Root THEN Root ELSE normalized \o <<"/">>

RECURSIVE CoreListFrom(_, _, _, _, _, _)
CoreListFrom(m, i, normalized, recursive, seen, out) ==
  IF i > Len(m) THEN out
  ELSE
    LET path == m[i].path
        pre == ListPrefix(normalized)
        segments == split(substring(path, Len(pre)))
        dirPath == joinPath(normalized, segments[1])
    IN IF ~startsWith(path, pre) \/ segments[1] = <<>>
       THEN CoreListFrom(m, i + 1, normalized, recursive, seen, out)
       ELSE IF Len(segments) = 1 \/ recursive
       THEN IF path \in seen
            THEN CoreListFrom(m, i + 1, normalized, recursive, seen, out)
            ELSE CoreListFrom(m, i + 1, normalized, recursive, seen \cup {path},
                              Append(out, InfoOf(m[i])))
       ELSE IF dirPath \in seen
            THEN CoreListFrom(m, i + 1, normalized, recursive, seen, out)
            ELSE CoreListFrom(m, i + 1, normalized, recursive, seen \cup {dirPath},
                              Append(out, Info("directory", dirPath, 0)))

CoreListOf(m, normalized, recursive) ==
  CoreListFrom(m, 1, normalized, recursive, {}, <<>>)

\* MemFilesApi.stats
CoreStatsOf(m, normalized) ==
  IF Has(m, normalized) THEN InfoOf(Get(m, normalized))
  ELSE IF normalized = Root THEN Info("directory", Root, 0)
  ELSE IF \E k \in Keys(m) : startsWith(k, normalized \o <<"/">>)
  THEN Info("directory", normalized, 0)
  ELSE NotFound

\* MemFilesApi.remove: the paths it deletes.
CoreRemoved(m, normalized) ==
  { k \in Keys(m) : k = normalized \/ startsWith(k, normalized \o <<"/">>) }

RECURSIVE DeleteAll(_, _)
DeleteAll(m, ks) ==
  IF ks = {} THEN m
  ELSE LET k == CHOOSE x \in ks : TRUE IN DeleteAll(MapDelete(m, k), ks \ {k})

Returned(op, p, recursive, out) ==
  [op |-> op, path |-> p, recursive |-> recursive, out |-> out]

\* ------------------------------------- webrun-files-mem MemFilesApi
\* The constructor stores the root directory.
NewEntries == <<DirEntry(Root)>>

\* ensureParentDirs: a directory entry for every proper ancestor that has none.
RECURSIVE EnsureFrom(_, _, _, _)
EnsureFrom(m, segs, i, current) ==
  IF i > Len(segs) - 1 THEN m
  ELSE LET next == current \o <<"/">> \o segs[i]
       IN EnsureFrom(IF Has(m, next) THEN m ELSE MapSet(m, DirEntry(next)),
                     segs, i + 1, next)

NonEmpty(s) == s # <<>>
ensureParentDirs(m, p) == EnsureFrom(m, SelectSeq(split(p), NonEmpty), 1, <<>>)

setFile(m, p, content) == MapSet(ensureParentDirs(m, p), FileEntry(p, content))

MemMkdirOf(m, normalizedPath) ==
  LET ensured == ensureParentDirs(m,
                   normalizedPath \o <<"/", "d", "u", "m", "m", "y">>)
  IN IF Has(ensured, normalizedPath) THEN ensured
     ELSE MapSet(ensured, DirEntry(normalizedPath))

RECURSIVE MemListFrom(_, _, _, _, _, _)
MemListFrom(m, i, normalizedPath, recursive, seen, out) ==
  IF i > Len(m) THEN out
  ELSE
    LET entryPath == m[i].path
        pre == ListPrefix(normalizedPath)
        relativePath == substring(entryPath, Len(pre))
        slashIndex == indexOfSlash(relativePath)
        dirPath == pre \o SubSeq(relativePath, 1, slashIndex - 1)
    IN IF ~startsWith(entryPath, pre) \/ entryPath = normalizedPath
       THEN MemListFrom(m, i + 1, normalizedPath, recursive, seen, out)
       ELSE IF slashIndex = 0 \/ recursive
       THEN MemListFrom(m, i + 1, normalizedPath, recursive, seen,
                        Append(out, InfoOf(m[i])))
       ELSE IF dirPath \in seen
       THEN MemListFrom(m, i + 1, normalizedPath, recursive, seen, out)
       ELSE MemListFrom(m, i + 1, normalizedPath, recursive, seen \cup {dirPath},
                        IF Has(m, dirPath)
                        THEN Append(out, Info("directory", dirPath,
                                              Get(m, dirPath).lastModified))
                        ELSE out)

MemListOf(m, normalizedPath, recursive) ==
  IF ~Has(m, normalizedPath) \/ Get(m, normalizedPath).kind # "directory"
  THEN <<>>
  ELSE MemListFrom(m, 1, normalizedPath, recursive, {}, <<>>)

MemStatsOf(m, normalizedPath) ==
  IF Has(m, normalizedPath)
  THEN Info(Get(m, normalizedPath).kind, normalizedPath,
            Get(m, normalizedPath).lastModified)
  ELSE IF \E k \in Keys(m) : startsWith(k, ListPrefix(normalizedPath))
  THEN Info("directory", normalizedPath, 0)
  ELSE NotFound

\* remove: FALSE and no change when the path has neither an entry nor
\* an entry beneath it; otherwise the paths it deletes.
MemRemoveFinds(m, normalizedPath) ==
  \/ Has(m, normalizedPath)
  \/ \E k \in Keys(m) : startsWith(k, normalizedPath \o <<"/">>)

MemRemoved(m, normalizedPath) ==
  IF MemRemoveFinds(m, normalizedPath)
  THEN { k \in Keys(m) :
           k = normalizedPath \/ startsWith(k, ListPrefix(normalizedPath)) }
  ELSE {}

\* ------------------------------------------------------- S3FilesApi
\* The bucket answers requests as S3 does: keys are non-empty strings,
\* listings are in the binary order of the keys.
charCode(c) ==
  CASE c = "/" -> 47 [] c = "a" -> 97 [] c = "b" -> 98 [] c = "p" -> 112

RECURSIVE KeyBefore(_, _)
KeyBefore(k1, k2) ==
  IF k2 = <<>> THEN FALSE
  ELSE IF k1 = <<>> THEN TRUE
  ELSE IF k1[1] = k2[1] THEN KeyBefore(Tail(k1), Tail(k2))
  ELSE charCode(k1[1]) < charCode(k2[1])

RECURSIVE InKeyOrder(_)
InKeyOrder(ks) ==
  IF ks = {} THEN <<>>
  ELSE LET k == CHOOSE x \in ks : \A y \in ks \ {x} : KeyBefore(x, y)
       IN <<k>> \o InKeyOrder(ks \ {k})

ValidKey(key) == key # <<>>

\* ListObjectsV2: the keys under Prefix; with a delimiter, those whose rest
\* holds a slash are rolled up into the common prefix that ends at it.
Matching(keys, Prefix) == { k \in keys : startsWith(k, Prefix) }
RolledUp(k, Prefix) == indexOfSlash(substring(k, Len(Prefix))) > 0
CommonPrefixes(keys, Prefix, delimited) ==
  IF delimited
  THEN { SubSeq(k, 1, Len(Prefix) + indexOfSlash(substring(k, Len(Prefix)))) :
           k \in { x \in Matching(keys, Prefix) : RolledUp(x, Prefix) } }
  ELSE {}
ListedContents(keys, Prefix, delimited) ==
  { k \in Matching(keys, Prefix) : ~(delimited /\ RolledUp(k, Prefix)) }

resolveKey(pre, normalized) ==
  LET relativePath == IF startsWith(normalized, <<"/">>)
                      THEN substring(normalized, 1) ELSE normalized
  IN IF pre # <<>>
     THEN IF relativePath # <<>> THEN pre \o <<"/">> \o relativePath ELSE pre
     ELSE relativePath

keyToPath(pre, key) ==
  LET stripped == IF pre # <<>> /\ startsWith(key, pre)
                  THEN substring(key, Len(pre)) ELSE key
      relativePath == IF pre # <<>> /\ startsWith(key, pre)
                         /\ startsWith(stripped, <<"/">>)
                      THEN substring(stripped, 1) ELSE stripped
  IN <<"/">> \o relativePath

\* mkdir: the key of the marker it puts.
MarkerKey(key) == IF endsWith(key, <<"/">>) THEN key ELSE key \o <<"/">>

\* list
NormalizedPrefix(pre, key) ==
  IF key # <<>> THEN key \o <<"/">>
  ELSE IF pre # <<>> THEN pre \o <<"/">> ELSE <<>>

DirKey(cp) == IF endsWith(cp, <<"/">>) THEN SubSeq(cp, 1, Len(cp) - 1) ELSE cp

RECURSIVE YieldDirs(_, _)
YieldDirs(pre, cps) ==
  IF cps = <<>> THEN <<>>
  ELSE <<Info("directory", keyToPath(pre, DirKey(cps[1])), 0)>>
       \o YieldDirs(pre, Tail(cps))

Skipped(key, normalizedPrefix) ==
  \/ key = normalizedPrefix
  \/ key \o <<"/">> = normalizedPrefix
  \/ endsWith(key, <<"/">>)

RECURSIVE YieldFiles(_, _, _)
YieldFiles(pre, contents, normalizedPrefix) ==
  IF contents = <<>> THEN <<>>
  ELSE (IF Skipped(contents[1], normalizedPrefix) THEN <<>>
        ELSE <<Info("file", keyToPath(pre, contents[1]), Now)>>)
       \o YieldFiles(pre, Tail(contents), normalizedPrefix)

S3ListOf(keys, pre, normalized, recursive) ==
  LET normalizedPrefix == NormalizedPrefix(pre, resolveKey(pre, normalized))
  IN YieldDirs(pre, InKeyOrder(CommonPrefixes(keys, normalizedPrefix, ~recursive)))
     \o YieldFiles(pre,
                   InKeyOrder(ListedContents(keys, normalizedPrefix, ~recursive)),
                   normalizedPrefix)

\* stats
DirPrefix(key) == IF key # <<>> THEN key \o <<"/">> ELSE <<>>

S3StatsOf(keys, pre, normalized) ==
  IF normalized = Root THEN Info("directory", Root, 0)
  ELSE IF resolveKey(pre, normalized) \in keys THEN Info("file", normalized, Now)
  ELSE IF Matching(keys, DirPrefix(resolveKey(pre, normalized))) # {}
  THEN Info("directory", normalized, 0)
  ELSE NotFound

\* remove: the keys it deletes once HeadObject has answered.
S3Removed(keys, key) ==
  IF key \in keys THEN {key} ELSE Matching(keys, DirPrefix(key))

\* ------------------------------------------- what the instance holds
\* The stored entries of the instance, as paths.
StoredFiles ==
  CASE backend \in {"core", "legacy"} ->
         { store[i].path : i \in { j \in 1..Len(store) : store[j].kind = "file" } }
    [] backend = "mem" ->
         { entries[i].path :
             i \in { j \in 1..Len(entries) : entries[j].kind = "file" } }
    [] backend = "s3" ->
         { keyToPath(prefix, k) : k \in { x \in objects : ~endsWith(x, <<"/">>) } }
    [] OTHER -> {}

StoredMarkers ==
  CASE backend \in {"core", "legacy"} ->
         { store[i].path :
             i \in { j \in 1..Len(store) : store[j].kind = "directory" } }
    [] backend = "mem" ->
         { entries[i].path :
             i \in { j \in 1..Len(entries) : entries[j].kind = "directory" } }
    [] backend = "s3" ->
         { keyToPath(prefix, DirKey(k)) :
             k \in { x \in objects : endsWith(x, <<"/">>) } }
    [] OTHER -> {}

StoredPaths == StoredFiles \cup StoredMarkers

\* The stored files with their content, where the instance keeps content.
StoredBytes ==
  CASE backend \in {"core", "legacy"} ->
         { <<store[i].path, store[i].content>> :
             i \in { j \in 1..Len(store) : store[j].kind = "file" } }
    [] backend = "mem" ->
         { <<entries[i].path, entries[i].content>> :
             i \in { j \in 1..Len(entries) : entries[j].kind = "file" } }
    [] OTHER -> {}

\* d is a proper ancestor of p
Beneath(p, d) == p # d /\ startsWith(p, ListPrefix(d))

\* What stats would return for p in the current state.
StatsNow(p) ==
  CASE backend = "core" -> CoreStatsOf(store, p)
    [] backend = "mem" -> MemStatsOf(entries, p)
    [] backend = "s3" -> S3StatsOf(objects, prefix, p)
    [] OTHER -> NotFound

\* What a non-recursive or recursive list would yield for p in the current state.
ListNow(p, recursive) ==
  CASE backend = "core" -> CoreListOf(store, p, recursive)
    [] backend = "mem" -> MemListOf(entries, p, recursive)
    [] backend = "s3" -> S3ListOf(objects, prefix, p, recursive)
    [] OTHER -> <<>>

\* What exists as the call starts: the paths stats reports as directories,
\* the paths that have a File entry beneath them, and the stored paths.
Census ==
  [dirs |-> { d \in Paths : StatsNow(d).kind = "directory" },
   parents |-> { d \in Paths : \E p \in StoredFiles : Beneath(p, d) },
   held |-> StoredPaths,
   bytes |-> StoredBytes]

\* The history follows the call just made: mkdir calls are collected, and a
\* remove call keeps what existed as it started.
Logged ==
  /\ mkdirs' = IF result'.op = "mkdir" THEN mkdirs \cup {result'.path} ELSE mkdirs
  /\ was' = IF result'.op = "remove" THEN Census ELSE NoCensus

\* ------------------------------------------------ the calls of the API
CoreCall ==
  /\ backend = "core"
  /\ calls < MaxCalls
  /\ calls' = calls + 1
  /\ UNCHANGED <<s3Vars, backend, prefix, entries, objects, file, cachedSize, wrote, gone, tasks>>

\* FilesApi.write on the core store: open, createWriteStream from 0, close.
CoreWrite ==
  /\ CoreCall
  /\ \E p \in Paths, content \in Contents :
       LET m == getOrCreateFile(store, p)
       IN /\ store' = MapSet(m, FileEntry(p,
                        createWriteStream(Get(m, p).content, 0, <<content>>)))
          /\ result' = Returned("write", p, FALSE, Len(content))
  /\ Logged

CoreMkdir ==
  /\ CoreCall
  /\ \E p \in Paths :
       /\ store' = IF Has(store, p) THEN store ELSE MapSet(store, DirEntry(p))
       /\ result' = Returned("mkdir", p, FALSE, TRUE)
  /\ Logged

CoreRemove ==
  /\ CoreCall
  /\ \E p \in Paths :
       /\ store' = DeleteAll(store, CoreRemoved(store, p))
       /\ result' = Returned("remove", p, FALSE, CoreRemoved(store, p) # {})
  /\ Logged

CoreList ==
  /\ CoreCall
  /\ \E p \in Paths, recursive \in BOOLEAN :
       result' = Returned("list", p, recursive, CoreListOf(store, p, recursive))
  /\ UNCHANGED store
  /\ Logged

CoreStats ==
  /\ CoreCall
  /\ \E p \in Paths :
       result' = Returned("stats", p, FALSE, CoreStatsOf(store, p))
  /\ UNCHANGED store
  /\ Logged

MemCall ==
  /\ backend = "mem"
  /\ calls < MaxCalls
  /\ calls' = calls + 1
  /\ UNCHANGED <<s3Vars, backend, prefix, store, objects, file, cachedSize, wrote, gone, tasks>>

MemWrite ==
  /\ MemCall
  /\ \E p \in Paths, content \in Contents :
       /\ entries' = setFile(entries, p, Merge(<<content>>))
       /\ result' = Returned("write", p, FALSE, Len(content))
  /\ Logged

MemMkdir ==
  /\ MemCall
  /\ \E p \in Paths :
       /\ entries' = MemMkdirOf(entries, p)
       /\ result' = Returned("mkdir", p, FALSE, TRUE)
  /\ Logged

MemRemove ==
  /\ MemCall
  /\ \E p \in Paths :
       /\ entries' = DeleteAll(entries, MemRemoved(entries, p))
       /\ result' = Returned("remove", p, FALSE, MemRemoveFinds(entries, p))
  /\ Logged

MemList ==
  /\ MemCall
  /\ \E p \in Paths, recursive \in BOOLEAN :
       result' = Returned("list", p, recursive, MemListOf(entries, p, recursive))
  /\ UNCHANGED entries
  /\ Logged

MemStats ==
  /\ MemCall
  /\ \E p \in Paths :
       result' = Returned("stats", p, FALSE, MemStatsOf(entries, p))
  /\ UNCHANGED entries
  /\ Logged

S3Call ==
  /\ backend = "s3"
  /\ calls < MaxCalls
  /\ calls' = calls + 1
  /\ UNCHANGED <<s3Vars, backend, prefix, store, entries, file, cachedSize, wrote, gone, tasks>>

\* write: the object is put under the path's key; a request without a key fails.
S3Write ==
  /\ S3Call
  /\ \E p \in Paths :
       IF ValidKey(resolveKey(prefix, p))
       THEN /\ objects' = objects \cup {resolveKey(prefix, p)}
            /\ result' = Returned("write", p, FALSE, TRUE)
       ELSE /\ objects' = objects
            /\ result' = Returned("error", p, FALSE, FALSE)
  /\ Logged

S3Mkdir ==
  /\ S3Call
  /\ \E p \in Paths :
       /\ objects' = objects \cup {MarkerKey(resolveKey(prefix, p))}
       /\ result' = Returned("mkdir", p, FALSE, TRUE)
  /\ Logged

\* remove: HeadObject without a key is refused by the client; whether the
\* refusal counts as not-found is the client's matter, so both are allowed.
S3Remove ==
  /\ S3Call
  /\ \E p \in Paths, refusalIsNotFound \in BOOLEAN :
       IF ValidKey(resolveKey(prefix, p)) \/ refusalIsNotFound
       THEN /\ objects' = objects \ S3Removed(objects, resolveKey(prefix, p))
            /\ result' = Returned("remove", p, FALSE,
                                  S3Removed(objects, resolveKey(prefix, p)) # {})
       ELSE /\ objects' = objects
            /\ result' = Returned("error", p, FALSE, FALSE)
  /\ Logged

S3List ==
  /\ S3Call
  /\ \E p \in Paths, recursive \in BOOLEAN :
       result' = Returned("list", p, recursive,
                          S3ListOf(objects, prefix, p, recursive))
  /\ UNCHANGED objects
  /\ Logged

S3Stats ==
  /\ S3Call
  /\ \E p \in Paths :
       result' = Returned("stats", p, FALSE, S3StatsOf(objects, prefix, p))
  /\ UNCHANGED objects
  /\ Logged

\* ------------------------------------------------------------ reading
\* MemFileHandle.createReadStream: the chunks it yields from position on.
RECURSIVE ReadFrom(_, _, _)
ReadFrom(content, position, actualEnd) ==
  IF position < actualEnd
  THEN <<SubSeq(content, position + 1,
                position + Min(bufferSize, actualEnd - position))>>
       \o ReadFrom(content, position + Min(bufferSize, actualEnd - position),
                   actualEnd)
  ELSE <<>>

createReadStreamFromZero(m, p, st, en) ==
  IF ~Has(m, p) \/ Get(m, p).kind # "file" THEN <<>>
  ELSE ReadFrom(Get(m, p).content, 0, Min(en, Len(Get(m, p).content)))

createReadStream(m, p, st, en) ==
  IF ~Has(m, p) \/ Get(m, p).kind # "file" THEN <<>>
  ELSE ReadFrom(Get(m, p).content, st, Min(en, Len(Get(m, p).content)))

\* webrun-files-mem MemFilesApi.read without options
MemReadOf(m, normalizedPath) ==
  IF ~Has(m, normalizedPath) \/ Get(m, normalizedPath).kind # "file" THEN <<>>
  ELSE IF 0 >= Len(Get(m, normalizedPath).content) THEN <<>>
  ELSE <<Get(m, normalizedPath).content>>

\* FilesApi.read on the core store: open, createReadStream, close.
CoreRead ==
  /\ CoreCall
  /\ \E p \in Paths :
       result' = Returned("read", p, FALSE, createReadStream(store, p, 0, Infinity))
  /\ UNCHANGED store
  /\ Logged

MemRead ==
  /\ MemCall
  /\ \E p \in Paths :
       result' = Returned("read", p, FALSE, MemReadOf(entries, p))
  /\ UNCHANGED entries
  /\ Logged

\* --------------------------------------- the MemFilesApi of part_000
\* The constructor's index holds the root directory.
NewIndex == <<DirEntry(Root)>>

\* write: the index once every path leading to filePath has an entry.
RECURSIVE WithSegments(_, _, _)
WithSegments(index, segments, i) ==
  IF i > Len(segments) THEN index
  ELSE LET path == normalizePath(join(SubSeq(segments, 1, i)))
       IN WithSegments(IF Has(index, path) THEN index
                       ELSE MapSet(index, DirEntry(path)),
                       segments, i + 1)

LegacyCall ==
  /\ backend = "legacy"
  /\ calls < MaxCalls
  /\ calls' = calls + 1
  /\ UNCHANGED <<s3Vars, backend, prefix, entries, objects, file, cachedSize, wrote, gone, tasks>>

\* write: without a segment there is no info to turn into a file.
LegacyWrite ==
  /\ LegacyCall
  /\ \E p \in Paths, content \in Contents :
       LET segments == SelectSeq(split(p), NonEmpty)
       IN IF segments = <<>>
          THEN /\ store' = store
               /\ result' = Returned("error", p, FALSE, FALSE)
          ELSE /\ store' = MapSet(WithSegments(store, segments, 1),
                                  FileEntry(p, content))
               /\ result' = Returned("write", p, FALSE, Len(content))
  /\ Logged

\* read: fileInfo.kind is read before fileInfo is known to be there.
LegacyRead ==
  /\ LegacyCall
  /\ \E p \in Paths :
       result' = IF ~Has(store, p) THEN Returned("error", p, FALSE, FALSE)
                 ELSE IF Get(store, p).kind # "file"
                 THEN Returned("read", p, FALSE, <<>>)
                 ELSE Returned("read", p, FALSE, <<Get(store, p).content>>)
  /\ UNCHANGED store
  /\ Logged

\* list, recursive: the paths that begin with filePath as a string.
LegacyListed(index, filePath) ==
  { k \in Keys(index) : startsWith(k, filePath) /\ k # filePath }

\* remove: nothing for a path without an entry; otherwise every listed path
\* but the root, and the path itself, are deleted. The call ends without a
\* value, which is not true.
LegacyRemove ==
  /\ LegacyCall
  /\ \E p \in Paths :
       /\ store' = IF ~Has(store, p) THEN store
                   ELSE DeleteAll(store, (LegacyListed(store, p) \ {Root}) \cup {p})
       /\ result' = Returned("remove", p, FALSE, FALSE)
  /\ Logged

\* ---------------------------------------------- the directory scenarios
Prefixes == { <<>>, <<"p">> }

FsInit ==
  /\ s3Exists = FALSE
  /\ s3Body = <<>>
  /\ CallInit
  /\ backend \in {"core", "mem", "s3", "legacy"}
  /\ prefix \in (IF backend = "s3" THEN Prefixes ELSE {<<>>})
  /\ store = (IF backend = "legacy" THEN NewIndex ELSE <<>>)
  /\ entries = (IF backend = "mem" THEN NewEntries ELSE <<>>)
  /\ objects = {}
  /\ calls = 0
  /\ result = NoResult
  /\ mkdirs = {}
  /\ was = NoCensus
  /\ file = <<>>
  /\ cachedSize = 0
  /\ wrote = <<>>
  /\ gone = FALSE
  /\ tasks = <<>>

FsNext ==
  \/ CoreWrite
  \/ CoreMkdir
  \/ CoreRemove
  \/ CoreList
  \/ CoreStats
  \/ CoreRead
  \/ MemWrite
  \/ MemMkdir
  \/ MemRemove
  \/ MemList
  \/ MemStats
  \/ MemRead
  \/ S3Write
  \/ S3Mkdir
  \/ S3Remove
  \/ S3List
  \/ S3Stats
  \/ LegacyWrite
  \/ LegacyRead
  \/ LegacyRemove

FsSpec == FsInit /\ [][FsNext]_vars

\* ------------------------------------------------ directory claims
\* The last call was op, addressed at p.
Called(op, p) == result.op = op /\ result.path = p

\* The paths a listing yielded, and how often it yielded p.
YieldedPaths == { result.out[i].path : i \in 1..Len(result.out) }
TimesYielded(p) == Cardinality({ i \in 1..Len(result.out) : result.out[i].path = p })

\* C11: whenever a File entry is stored at a path, stats of each proper
\* ancestor of that path reports a directory, not a file and not not-found.
C11_AncestorsAreDirectories ==
  \A d \in Paths :
    (Called("stats", d) /\ \E p \in StoredFiles : Beneath(p, d))
      => result.out.kind = "directory"

\* C12: in every reachable state stats of the root returns a directory
\* whose lastModified is 0, whatever calls were addressed at the root.
C12_RootIsSyntheticDirectory ==
  Called("stats", Root) =>
    /\ result.out.kind = "directory"
    /\ result.out.lastModified = 0

\* C13: once remove(D) has returned for a directory D, the root included,
\* no entry is stored at D or beneath D, file or directory marker.
C13_RemoveLeavesNothingBeneath ==
  \A d \in Paths :
    (Called("remove", d) /\ d \in was.dirs)
      => \A p \in StoredPaths : p # d /\ ~Beneath(p, d)

\* dirname
lastIndexOfSlash(s) ==
  IF indexOfSlash(s) = 0 THEN 0
  ELSE CHOOSE k \in 1..Len(s) : s[k] = "/" /\ \A j \in (k + 1)..Len(s) : s[j] # "/"

dirname(p) ==
  IF lastIndexOfSlash(normalizePath(p)) <= 1 THEN Root
  ELSE SubSeq(normalizePath(p), 1, lastIndexOfSlash(normalizePath(p)) - 1)

PathsOf(infos) == { infos[i].path : i \in 1..Len(infos) }

\* C14: a directory never passed to mkdir that exists because of what is
\* stored beneath it no longer exists once a remove call has removed the last
\* File entry beneath it: stats reports not-found and the listing of its
\* parent does not contain it.
C14_ImplicitDirectoryVanishes ==
  \A d \in Paths \ {Root} :
    (/\ result.op = "remove"
     /\ d \notin mkdirs
     /\ d \in was.dirs
     /\ d \in was.parents
     /\ ~\E p \in StoredFiles : Beneath(p, d))
      => /\ StatsNow(d) = NotFound
         /\ d \notin PathsOf(ListNow(dirname(d), FALSE))

\* C15: a non-recursive list never yields the same path twice, also when a
\* subdirectory has a stored entry of its own and stored descendants.
C15_ListYieldsNoPathTwice ==
  (result.op = "list" /\ ~result.recursive)
    => \A p \in YieldedPaths : TimesYielded(p) = 1

\* The entry of d that leads to p, a path beneath d.
Child(d, p) ==
  ListPrefix(d) \o split(substring(p, Len(ListPrefix(d))))[1]

\* The depth-1 entries of d, and those of them that have something beneath.
DepthOne(d) == { Child(d, p) : p \in { q \in StoredPaths : Beneath(q, d) } }
Subdirectories(d) ==
  { c \in DepthOne(d) : c \notin StoredFiles \/ \E q \in StoredPaths : Beneath(q, c) }

\* C16: a non-recursive list(D) yields exactly the depth-1 entries of D: the
\* files stored directly under D and, as directories, the first segments of
\* what is stored deeper.
C16_ListYieldsDepthOne ==
  (result.op = "list" /\ ~result.recursive)
    => /\ YieldedPaths = DepthOne(result.path)
       /\ \A i \in 1..Len(result.out) :
            result.out[i].kind = "directory"
              <=> result.out[i].path \in Subdirectories(result.path)

\* C17: a recursive list(D) yields every entry stored beneath D at any depth,
\* directories as well as files, exactly once each.
C17_RecursiveListYieldsAll ==
  (result.op = "list" /\ result.recursive)
    => /\ YieldedPaths = { q \in StoredPaths : Beneath(q, result.path) }
       /\ \A p \in YieldedPaths : TimesYielded(p) = 1

\* C18: on S3 list(D) never yields D itself: the marker mkdir put for D is
\* not one of D's children.
C18_ListOmitsTheDirectoryItself ==
  (backend = "s3" /\ result.op = "list") => result.path \notin YieldedPaths

\* ------------------------------------------------ the file handles
\* The largest start option of a handle write.
MaxAt == 3

\* The path the handle is opened on, and the streams written through it.
HandlePath == <<"/", "a">>
Streams == { <<>>, << <<1>> >>, << <<1>>, <<2>> >> }

\* The platform's file: truncate cuts the file or extends it with zero bytes.
Truncate(bytes, n) ==
  IF n <= Len(bytes) THEN SubSeq(bytes, 1, n) ELSE bytes \o Zeros(n - Len(bytes))

\* The platform's file: a write at a position overwrites from there on and
\* extends the file; a position beyond the end is reached with zero bytes.
WriteAt(bytes, position, data) ==
  LET reached == IF position > Len(bytes) THEN Truncate(bytes, position) ELSE bytes
  IN SubSeq(reached, 1, position) \o data
       \o SubSeq(reached, position + Len(data) + 1, Len(reached))

RECURSIVE WriteChunks(_, _, _)
WriteChunks(bytes, position, chunks) ==
  IF chunks = <<>> THEN bytes
  ELSE WriteChunks(WriteAt(bytes, position, chunks[1]),
                   position + Len(chunks[1]), Tail(chunks))

\* NodeFileHandleWrapper.writeStream: truncate at start, then positional writes.
NodeWritten(content, st, chunks) == WriteChunks(Truncate(content, st), st, chunks)

\* BrowserFileHandle.createWriteStream: the writable keeps the data only when
\* start > 0, and is then sought to and truncated at start.
BrowserWritten(content, st, chunks) ==
  IF st > 0 THEN WriteChunks(Truncate(content, st), st, chunks)
  ELSE WriteChunks(<<>>, 0, chunks)

\* BrowserFileHandle.appendFile: the writable keeps the data and is sought to
\* the handle's size.
BrowserAppended(content, atSize, chunks) == WriteChunks(content, atSize, chunks)

\* The content of the handle's file and the size the handle reports.
FileNow ==
  IF backend = "core"
  THEN IF Has(store, HandlePath) /\ Get(store, HandlePath).kind = "file"
       THEN Get(store, HandlePath).content ELSE <<>>
  ELSE file

SizeNow == IF backend = "core" THEN Len(FileNow) ELSE cachedSize

\* A handle call is made and noted.
HandleStep(op, st, chunks) ==
  /\ calls < MaxCalls
  /\ calls' = calls + 1
  /\ wrote' = Append(wrote, [op |-> op, start |-> st, data |-> chunks,
                             before |-> FileNow])
  /\ UNCHANGED <<s3Vars, backend, prefix, entries, objects, result, mkdirs, was,
                 gone, tasks>>

MemCreateWriteStream ==
  /\ backend = "core"
  /\ \E st \in 0..MaxAt, chunks \in Streams :
       LET m == getOrCreateFile(store, HandlePath)
       IN /\ store' = MapSet(m, FileEntry(HandlePath,
                        createWriteStream(Get(m, HandlePath).content, st, chunks)))
          /\ HandleStep("write", st, chunks)
  /\ UNCHANGED <<file, cachedSize>>

MemAppendFile ==
  /\ backend = "core"
  /\ \E chunks \in Streams :
       LET m == getOrCreateFile(store, HandlePath)
       IN /\ store' = MapSet(m, FileEntry(HandlePath,
                        appendFile(Get(m, HandlePath).content, chunks)))
          /\ HandleStep("append", 0, chunks)
  /\ UNCHANGED <<file, cachedSize>>

NodeWriteStream ==
  /\ backend = "node"
  /\ \E st \in 0..MaxAt, chunks \in Streams :
       /\ file' = NodeWritten(file, st, chunks)
       /\ cachedSize' = Len(NodeWritten(file, st, chunks))
       /\ HandleStep("write", st, chunks)
  /\ UNCHANGED store

BrowserCreateWriteStream ==
  /\ backend = "browser"
  /\ \E st \in 0..MaxAt, chunks \in Streams :
       /\ file' = BrowserWritten(file, st, chunks)
       /\ cachedSize' = Len(BrowserWritten(file, st, chunks))
       /\ HandleStep("write", st, chunks)
  /\ UNCHANGED store

BrowserAppendFile ==
  /\ backend = "browser"
  /\ \E chunks \in Streams :
       /\ file' = BrowserAppended(file, cachedSize, chunks)
       /\ cachedSize' = Len(BrowserAppended(file, cachedSize, chunks))
       /\ HandleStep("append", 0, chunks)
  /\ UNCHANGED store

\* The range options of a read: end is a position or left at its default.
Ends == (0..MaxAt) \cup {Infinity}

\* The files a handle is opened on, and the handle calls followed.
Opened == { <<>>, <<7>>, <<7, 8>>, <<5, 6, 7, 8, 9>> }
MaxReads == 2

\* A read through the handle is made and noted, with what it yielded.
HandleRead(op, st, en, out) ==
  /\ Len(wrote) < MaxReads
  /\ wrote' = Append(wrote, [op |-> op, start |-> st, end |-> en, data |-> out,
                             before |-> FileNow, gone |-> gone])
  /\ UNCHANGED <<s3Vars, backend, prefix, store, entries, objects, calls,
                 result, mkdirs, was, file, cachedSize, gone, tasks>>

MemCreateReadStream ==
  /\ backend = "core"
  /\ \E st \in 0..MaxAt, en \in Ends :
       HandleRead("read", st, en, createReadStream(store, HandlePath, st, en))

\* NodeFileHandleWrapper.createReadStream: positional reads on the descriptor.
NodeCreateReadStream ==
  /\ backend = "node"
  /\ \E st \in 0..MaxAt, en \in Ends :
       HandleRead("read", st, en, ReadFrom(file, st, Min(en, cachedSize)))

\* BrowserFileHandle.createReadStream: slices of the File the handle holds.
BrowserCreateReadStream ==
  /\ backend = "browser"
  /\ \E st \in 0..MaxAt, en \in Ends :
       HandleRead("read", st, en,
                  IF st >= Min(en, cachedSize) \/ cachedSize = 0 THEN <<>>
                  ELSE ReadFrom(file, st, Min(en, cachedSize)))

\* S3FileHandle.createReadStream: nothing is requested for an empty range;
\* otherwise one ranged GetObject, whose failure is the stream's failure, and
\* whose body is yielded as it arrives (here in one chunk).
S3CreateReadStream ==
  /\ backend = "s3"
  /\ \E st \in 0..MaxAt, en \in Ends :
       LET actualEnd == Min(en, cachedSize)
       IN IF st >= actualEnd \/ cachedSize = 0
          THEN HandleRead("read", st, en, <<>>)
          ELSE IF gone
          THEN HandleRead("error", st, en, <<>>)
          ELSE HandleRead("read", st, en,
                          <<SubSeq(file, st + 1, Min(actualEnd, Len(file)))>>)

\* The handle's file is removed through the API while the handle is open:
\* the store's entry is deleted, the object is deleted, the platform's file
\* is unlinked and stays readable through the open descriptor.
Unlink ==
  /\ backend \in {"core", "node", "s3"}
  /\ ~gone
  /\ Len(wrote) < MaxReads
  /\ gone' = TRUE
  /\ store' = IF backend = "core" THEN MapDelete(store, HandlePath) ELSE store
  /\ file' = IF backend = "s3" THEN <<>> ELSE file
  /\ wrote' = Append(wrote, [op |-> "remove", start |-> 0, data |-> <<>>,
                             before |-> FileNow])
  /\ UNCHANGED <<s3Vars, backend, prefix, entries, objects, calls, result,
                 mkdirs, was, cachedSize, tasks>>

\* A handle just opened on a path that holds nothing or one of the files.
ReadInit ==
  /\ s3Exists = FALSE
  /\ s3Body = <<>>
  /\ CallInit
  /\ backend \in {"core", "node", "browser", "s3"}
  /\ prefix = <<>>
  /\ file \in (IF backend = "core" THEN {<<>>} ELSE Opened)
  /\ store \in (IF backend = "core"
                THEN {<<>>} \cup { <<FileEntry(HandlePath, c)>> : c \in Opened }
                ELSE {<<>>})
  /\ entries = <<>>
  /\ objects = {}
  /\ calls = 0
  /\ result = NoResult
  /\ mkdirs = {}
  /\ was = NoCensus
  /\ cachedSize = Len(file)
  /\ wrote = <<>>
  /\ gone = FALSE
  /\ tasks = <<>>

ReadNext ==
  \/ MemCreateReadStream
  \/ NodeCreateReadStream
  \/ BrowserCreateReadStream
  \/ S3CreateReadStream
  \/ Unlink

ReadSpec == ReadInit /\ [][ReadNext]_vars

\* A handle opened on a path that holds nothing yet.
HandleInit ==
  /\ s3Exists = FALSE
  /\ s3Body = <<>>
  /\ CallInit
  /\ backend \in {"core", "node", "browser"}
  /\ prefix = <<>>
  /\ store = <<>>
  /\ entries = <<>>
  /\ objects = {}
  /\ calls = 0
  /\ result = NoResult
  /\ mkdirs = {}
  /\ was = NoCensus
  /\ file = <<>>
  /\ cachedSize = 0
  /\ wrote = <<>>
  /\ gone = FALSE
  /\ tasks = <<>>

HandleNext ==
  \/ MemCreateWriteStream
  \/ MemAppendFile
  \/ NodeWriteStream
  \/ BrowserCreateWriteStream
  \/ BrowserAppendFile

HandleSpec == HandleInit /\ [][HandleNext]_vars

\* The handle call made last.
LastWrote == wrote[Len(wrote)]

\* C19: a write through the handle with the option start, on a file holding
\* C, leaves the first min(start, |C|) bytes of C, then start - |C| zero bytes
\* when start is beyond the end of C, then the data; everything of C from
\* start on is gone.
C19_WriteFromLeavesPrefixPaddingData ==
  (wrote # <<>> /\ LastWrote.op = "write") =>
    FileNow = SubSeq(LastWrote.before, 1, Min(LastWrote.start, Len(LastWrote.before)))
                \o Zeros(LastWrote.start - Len(LastWrote.before))
                \o Merge(LastWrote.data)

\* A write at a position inside the content, as 'XXXXX' at 6 in 'Hello World!'.
C19_Witness ==
  /\ wrote # <<>>
  /\ LastWrote.op = "write"
  /\ LastWrote.start > 0
  /\ LastWrote.start < Len(LastWrote.before)
  /\ Merge(LastWrote.data) # <<>>
  /\ Len(FileNow) < Len(LastWrote.before)

\* C20: an append leaves the bytes that were there and adds the data after
\* them; append(A) then append(B) on a path that held nothing give A followed
\* by B, and the size is len(A) + len(B).
C20_AppendsConcatenate ==
  /\ (wrote # <<>> /\ LastWrote.op = "append") =>
       /\ FileNow = LastWrote.before \o Merge(LastWrote.data)
       /\ SizeNow = Len(LastWrote.before) + Len(Merge(LastWrote.data))
  /\ (Len(wrote) = 2 /\ wrote[1].op = "append" /\ wrote[2].op = "append") =>
       /\ FileNow = Merge(wrote[1].data) \o Merge(wrote[2].data)
       /\ SizeNow = Len(Merge(wrote[1].data)) + Len(Merge(wrote[2].data))

\* Two appends of different data on a path that held nothing.
C20_Witness ==
  /\ Len(wrote) = 2
  /\ wrote[1].op = "append"
  /\ wrote[2].op = "append"
  /\ Merge(wrote[1].data) # <<>>
  /\ Merge(wrote[2].data) # <<>>
  /\ Merge(wrote[1].data) # Merge(wrote[2].data)

\* ------------------------------------------------ existence claims
\* C26: remove(P) returns true exactly when P had a stored entry or a stored
\* descendant as the call started, and then nothing is stored at or beneath P
\* any more; otherwise it returns false and what is stored is unchanged.
C26_RemoveReportsWhatItRemoved ==
  result.op = "remove" =>
    /\ result.out <=> \E q \in was.held : q = result.path \/ Beneath(q, result.path)
    /\ result.out => \A q \in StoredPaths : q # result.path /\ ~Beneath(q, result.path)
    /\ ~result.out => StoredPaths = was.held

\* The path the last call was addressed at had nothing stored at or beneath it
\* as the call started.
AddressedNothing ==
  /\ result.path \in Paths \ {Root}
  /\ \A q \in (IF result.op = "remove" THEN was.held ELSE StoredPaths) :
       q # result.path /\ ~Beneath(q, result.path)

\* C24: for a path with no stored entry and nothing stored beneath it, list
\* and read yield nothing, stats returns undefined and remove returns false,
\* and none of these calls throws.
C24_NothingThereIsSoft ==
  AddressedNothing =>
    CASE result.op \in {"list", "read"} -> result.out = <<>>
      [] result.op = "stats" -> result.out = NotFound
      [] result.op = "remove" -> result.out = FALSE
      [] result.op = "error" -> FALSE
      [] OTHER -> TRUE

\* C21: a whole-file write of B that has completed, over any prior state of
\* the path, leaves B as what a read of the path yields and len(B) as the
\* size stats reports; on the S3 backend both are taken from the object at
\* the key.
C21_WriteThenReadYieldsContent ==
  ((pc = "done" /\ start = 0) \/ pc = "a_done") =>
    /\ s3Exists
    /\ s3Body = Payload
    /\ Len(s3Body) = yielded

\* C22: a read through a handle with the options start and end yields, in
\* order, exactly the bytes of the file from start up to min(end, size), and
\* yields nothing when start is at or beyond min(end, size) or the file is
\* empty: an end beyond the size reads to the last byte, a start beyond the
\* size reads nothing.
C22_ReadYieldsTheRange ==
  (wrote # <<>> /\ LastWrote.op = "read") =>
    LET actualEnd == Min(LastWrote.end, Len(LastWrote.before))
    IN /\ Merge(LastWrote.data)
            = SubSeq(LastWrote.before, LastWrote.start + 1, actualEnd)
       /\ LastWrote.start >= actualEnd => LastWrote.data = <<>>
       /\ \A i \in 1..Len(LastWrote.data) : LastWrote.data[i] # <<>>

\* A read from inside the file with an end beyond its size, as
\* { start: 90, end: 200 } on 100 bytes.
C22_Witness ==
  /\ wrote # <<>>
  /\ LastWrote.op = "read"
  /\ LastWrote.start > 0
  /\ LastWrote.end # Infinity
  /\ LastWrote.end > Len(LastWrote.before)
  /\ LastWrote.data # <<>>

\* C23: a read through a handle whose file was removed after the handle was
\* opened does not fail and yields nothing.
C23_ReadOfRemovedYieldsNothing ==
  (wrote # <<>> /\ LastWrote.op \in {"read", "error"} /\ LastWrote.gone) =>
    /\ LastWrote.op = "read"
    /\ LastWrote.data = <<>>

\* ------------------------------------------------ faults of the platform
\* What a call to the platform comes to: it is served, it fails with a
\* not-found-class error (ENOENT, NotFound, 404), or with another fault
\* (EACCES, EIO, AccessDenied, a network error).
Outcomes == {"ok", "notfound", "fault"}
Served == {"ok", "fault"}
Listings == {"some", "none", "fault"}

Soft(out) == [out |-> out, fault |-> FALSE]
Swallowed(out, faulty) == [out |-> out, fault |-> faulty]
Thrown == [out |-> "thrown", fault |-> TRUE]

\* A call is answered: what the caller gets, and whether a fault other than
\* not-found was raised by a platform call the operation made.
Answered(op, p, answer) ==
  /\ calls < MaxCalls
  /\ calls' = calls + 1
  /\ result' = [op |-> op, path |-> p, recursive |-> FALSE,
                out |-> answer.out, fault |-> answer.fault]
  /\ UNCHANGED <<s3Vars, backend, prefix, store, entries, objects, mkdirs, was,
                 file, cachedSize, wrote, gone, tasks>>

\* NodeFilesApi.list: every error of readdir ends the listing.
NodeList ==
  /\ backend = "node"
  /\ \E p \in Paths, readdir \in Outcomes :
       Answered("list", p, IF readdir = "ok" THEN Soft("entries")
                           ELSE Swallowed("empty", readdir = "fault"))

\* NodeFilesApi.stats: every error of stat gives undefined.
NodeStats ==
  /\ backend = "node"
  /\ \E p \in Paths, stat \in Outcomes :
       Answered("stats", p, IF stat = "ok" THEN Soft("info")
                            ELSE Swallowed("undefined", stat = "fault"))

\* NodeFilesApi.remove: every error of stat, rm or unlink gives false.
NodeRemove ==
  /\ backend = "node"
  /\ \E p \in Paths, stat \in Outcomes, rm \in Outcomes :
       Answered("remove", p,
                IF stat # "ok" THEN Swallowed("false", stat = "fault")
                ELSE IF rm # "ok" THEN Swallowed("false", rm = "fault")
                ELSE Soft("true"))

\* NodeFilesApi.move: every error of mkdir or rename gives false.
NodeMove ==
  /\ backend = "node"
  /\ \E p \in Paths, mkdir \in Served, rename \in Outcomes :
       Answered("move", p,
                IF mkdir # "ok" THEN Swallowed("false", TRUE)
                ELSE IF rename # "ok" THEN Swallowed("false", rename = "fault")
                ELSE Soft("true"))

\* NodeFilesApi.copy: every error of mkdir or cp gives false.
NodeCopy ==
  /\ backend = "node"
  /\ \E p \in Paths, mkdir \in Served, cp \in Outcomes :
       Answered("copy", p,
                IF mkdir # "ok" THEN Swallowed("false", TRUE)
                ELSE IF cp # "ok" THEN Swallowed("false", cp = "fault")
                ELSE Soft("true"))

\* S3FilesApi.stats: HeadObject, and for NotFound or 404 only, a listing of
\* the prefix; any other error is thrown again.
S3StatsUnder(head, listing) ==
  IF head = "ok" THEN Soft("info")
  ELSE IF head = "fault" THEN Thrown
  ELSE IF listing = "fault" THEN Thrown
  ELSE IF listing = "some" THEN Soft("info")
  ELSE Soft("undefined")

\* S3FilesApi.remove: HeadObject and DeleteObject, and for NotFound or 404
\* only, the deletion of what the prefix lists.
S3RemoveUnder(head, delete, listing) ==
  IF head = "ok" THEN (IF delete = "ok" THEN Soft("true") ELSE Thrown)
  ELSE IF head = "fault" THEN Thrown
  ELSE IF listing = "fault" THEN Thrown
  ELSE IF listing = "none" THEN Soft("false")
  ELSE IF delete = "ok" THEN Soft("true") ELSE Thrown

\* S3FilesApi.copy: stats of the source, then CopyObject for a file, or for
\* each object the source prefix lists.
S3CopyUnder(head, listing, copy) ==
  LET sourceInfo == S3StatsUnder(head, listing)
  IN IF sourceInfo.out = "thrown" THEN Thrown
     ELSE IF sourceInfo.out = "undefined" THEN Soft("false")
     ELSE IF copy = "ok" THEN Soft("true") ELSE Thrown

FaultyS3List ==
  /\ backend = "s3"
  /\ \E p \in Paths, listing \in Listings :
       Answered("list", p, IF listing = "fault" THEN Thrown
                           ELSE IF listing = "some" THEN Soft("entries")
                           ELSE Soft("empty"))

FaultyS3Stats ==
  /\ backend = "s3"
  /\ \E p \in Paths \ {Root}, head \in Outcomes, listing \in Listings :
       Answered("stats", p, S3StatsUnder(head, listing))

FaultyS3Remove ==
  /\ backend = "s3"
  /\ \E p \in Paths, head \in Outcomes, delete \in Served, listing \in Listings :
       Answered("remove", p, S3RemoveUnder(head, delete, listing))

FaultyS3Copy ==
  /\ backend = "s3"
  /\ \E p \in Paths \ {Root}, head \in Outcomes, listing \in Listings,
        copy \in Served :
       Answered("copy", p, S3CopyUnder(head, listing, copy))

\* S3FilesApi.move: copy, and when it copied, remove of the source.
FaultyS3Move ==
  /\ backend = "s3"
  /\ \E p \in Paths \ {Root}, head \in Outcomes, listing \in Listings,
        copy \in Served, delete \in Served :
       Answered("move", p,
                IF S3CopyUnder(head, listing, copy).out # "true"
                THEN S3CopyUnder(head, listing, copy)
                ELSE S3RemoveUnder(head, delete, listing))

FaultInit ==
  /\ s3Exists = FALSE
  /\ s3Body = <<>>
  /\ CallInit
  /\ backend \in {"node", "s3"}
  /\ prefix = <<>>
  /\ store = <<>>
  /\ entries = <<>>
  /\ objects = {}
  /\ calls = 0
  /\ result = NoResult
  /\ mkdirs = {}
  /\ was = NoCensus
  /\ file = <<>>
  /\ cachedSize = 0
  /\ wrote = <<>>
  /\ gone = FALSE
  /\ tasks = <<>>

FaultNext ==
  \/ NodeList
  \/ NodeStats
  \/ NodeRemove
  \/ NodeMove
  \/ NodeCopy
  \/ FaultyS3List
  \/ FaultyS3Stats
  \/ FaultyS3Remove
  \/ FaultyS3Copy
  \/ FaultyS3Move

FaultSpec == FaultInit /\ [][FaultNext]_vars

\* C25: when a platform call made by list, stats, remove, copy or move fails
\* with a fault that is not of the not-found class, the operation fails with
\* it; it does not answer with the soft result of a path that is not there.
C25_FaultsArePropagated ==
  (result.op \in {"list", "stats", "remove", "copy", "move"} /\ result.fault) =>
    result.out = "thrown"

\* ------------------------------------------------ operations in progress
\* Two calls are under way at once on one instance; each step below runs
\* from one suspension point of a call to its next.
Tasks == {1, 2}
RunPaths == { HandlePath, <<"/", "b">> }

\* What the path /a holds when the calls are made; /b holds nothing.
Stored == <<7, 8, 9>>

\* The data of call t: n chunks of one byte that no other call writes.
StreamOf(t, n) == [i \in 1..n |-> <<10 * t + i>>]

\* The calls: the wrapper's write and read, and a write stream or an append
\* through a handle the caller opened, with a signal.
Kinds == IF backend = "core" THEN {"write", "read", "stream", "append"}
         ELSE {"write", "read", "stream"}
Wrapped(kind) == kind \in {"write", "read"}
Signalled(kind) == kind \in {"read", "stream", "append"}
Ended == {"done", "failed", "aborted", "returned"}

NewTask(kind, p, data) ==
  [kind |-> kind, path |-> p, data |-> IF kind = "read" THEN <<>> ELSE data,
   pc |-> "call", outcome |-> "none", handle |-> "none", signal |-> FALSE,
   pulled |-> 0, held |-> <<>>, taken |-> <<>>, position |-> 0, size |-> 0]

resolveFileRefOfFirst(p) == HandlePath

resolveFileRef(p) == normalizePath(p)

\* The bytes of the file at a path; nothing when there is no file.
FileAt(m, p) ==
  IF Has(m, p) /\ Get(m, p).kind = "file" THEN Get(m, p).content ELSE <<>>

RunKeeps ==
  UNCHANGED <<s3Vars, backend, prefix, entries, objects, calls, result, mkdirs,
              was, file, cachedSize, wrote, gone>>

AfterStreamOnSuccess(kind, outcome) ==
  IF Wrapped(kind) /\ outcome = "done" THEN "finally" ELSE outcome

\* Where a call goes when its stream is over: the wrapper's try/finally
\* closes the handle on every outcome; a handle call just ends.
AfterStream(kind, outcome) ==
  IF Wrapped(kind) THEN "finally" ELSE outcome

Ending(task, outcome) ==
  [task EXCEPT !.pc = AfterStream(task.kind, outcome), !.outcome = outcome]

\* open: NodeFilesApi creates the file when there is none and caches its size.
TaskOpen(t) ==
  /\ tasks[t].pc = "call"
  /\ LET p == resolveFileRef(tasks[t].path)
     IN /\ store' = IF backend = "node" /\ ~Has(store, p)
                    THEN MapSet(store, FileEntry(p, <<>>)) ELSE store
        /\ tasks' = [tasks EXCEPT ![t].pc = "begin", ![t].handle = "open",
                       ![t].size = IF backend = "node"
                                   THEN Len(FileAt(store, p)) ELSE 0]
  /\ RunKeeps

\* The stream's code up to its first suspension: the write streams take or
\* create the entry and keep what they preserve of it, or truncate the
\* platform's file; the read stream looks the entry up.
TaskBegin(t) ==
  /\ tasks[t].pc = "begin"
  /\ LET p == resolveFileRef(tasks[t].path)
         made == getOrCreateFile(store, p)
     IN IF tasks[t].kind = "read"
        THEN /\ store' = store
             /\ tasks' = [tasks EXCEPT ![t] =
                  IF backend = "core" /\ ~(Has(store, p) /\ Get(store, p).kind = "file")
                  THEN Ending(tasks[t], "done")
                  ELSE [tasks[t] EXCEPT !.pc = "stream",
                                        !.held = IF backend = "core"
                                                 THEN FileAt(store, p) ELSE <<>>]]
        ELSE IF backend = "core"
        THEN /\ store' = made
             /\ tasks' = [tasks EXCEPT ![t].pc = "stream",
                                       ![t].held = FileAt(made, p)]
        ELSE /\ store' = MapSet(store, FileEntry(p, Truncate(FileAt(store, p), 0)))
             /\ tasks' = [tasks EXCEPT ![t].pc = "stream"]
  /\ RunKeeps

\* A chunk of the data arrives: the signal is looked at, then the chunk is
\* kept (core) or written at the position (Node).
TaskPull(t) ==
  /\ tasks[t].pc = "stream"
  /\ tasks[t].kind # "read"
  /\ tasks[t].pulled < Len(tasks[t].data)
  /\ LET p == resolveFileRef(tasks[t].path)
         next == tasks[t].data[tasks[t].pulled + 1]
     IN IF tasks[t].signal
        THEN /\ store' = store
             /\ tasks' = [tasks EXCEPT ![t] = Ending(tasks[t], "aborted")]
        ELSE /\ store' = IF backend = "node"
                         THEN MapSet(store, FileEntry(p,
                                WriteAt(FileAt(store, p), tasks[t].position, next)))
                         ELSE store
             /\ tasks' = [tasks EXCEPT ![t].pulled = @ + 1,
                                       ![t].position = @ + Len(next)]
  /\ RunKeeps

\* The data is over: the core handle assigns the merged chunks to the entry,
\* the Node handle refreshes its size.
TaskFinish(t) ==
  /\ tasks[t].pc = "stream"
  /\ tasks[t].kind # "read"
  /\ tasks[t].pulled = Len(tasks[t].data)
  /\ LET p == resolveFileRef(tasks[t].path)
     IN /\ store' = IF backend = "core"
                    THEN MapSet(store, FileEntry(p,
                           IF tasks[t].kind = "append"
                           THEN appendFile(tasks[t].held, tasks[t].data)
                           ELSE createWriteStream(tasks[t].held, 0, tasks[t].data)))
                    ELSE store
        /\ tasks' = [tasks EXCEPT ![t] =
                       Ending([tasks[t] EXCEPT !.size = Len(FileAt(store', p))], "done")]
  /\ RunKeeps

\* The consumer asks for the next chunk of a read.
TaskYield(t) ==
  /\ tasks[t].pc = "stream"
  /\ tasks[t].kind = "read"
  /\ LET p == resolveFileRef(tasks[t].path)
         actualEnd == IF backend = "core" THEN Len(tasks[t].held) ELSE tasks[t].size
         toRead == Min(bufferSize, actualEnd - tasks[t].position)
         from == IF backend = "core" THEN tasks[t].held ELSE FileAt(store, p)
         bytes == SubSeq(from, tasks[t].position + 1,
                         Min(tasks[t].position + toRead, Len(from)))
     IN tasks' = [tasks EXCEPT ![t] =
          IF tasks[t].position >= actualEnd THEN Ending(tasks[t], "done")
          ELSE IF tasks[t].signal THEN Ending(tasks[t], "aborted")
          ELSE IF bytes = <<>> THEN Ending(tasks[t], "done")
          ELSE [tasks[t] EXCEPT !.taken = Append(@, bytes),
                                !.position = @ + Len(bytes)]]
  /\ UNCHANGED store
  /\ RunKeeps

\* The consumer of a read stops after a chunk: the generator is returned.
TaskReturn(t) ==
  /\ tasks[t].pc = "stream"
  /\ tasks[t].kind = "read"
  /\ tasks[t].taken # <<>>
  /\ tasks' = [tasks EXCEPT ![t] = Ending(tasks[t], "returned")]
  /\ UNCHANGED store
  /\ RunKeeps

\* The stream fails: the data source throws, or a call to the platform does.
TaskError(t) ==
  /\ tasks[t].pc = "stream"
  /\ tasks[t].kind = "read" => backend = "node"
  /\ tasks' = [tasks EXCEPT ![t] = Ending(tasks[t], "failed")]
  /\ UNCHANGED store
  /\ RunKeeps

\* finally: handle.close(), then the operation ends as its stream did.
TaskClose(t) ==
  /\ tasks[t].pc = "finally"
  /\ tasks' = [tasks EXCEPT ![t].handle = "closed", ![t].pc = tasks[t].outcome]
  /\ UNCHANGED store
  /\ RunKeeps

\* The caller raises the signal it passed, while the operation is under way.
TaskRaise(t) ==
  /\ Signalled(tasks[t].kind)
  /\ tasks[t].pc \in {"begin", "stream"}
  /\ ~tasks[t].signal
  /\ tasks' = [tasks EXCEPT ![t].signal = TRUE]
  /\ UNCHANGED store
  /\ RunKeeps

RunInit ==
  /\ s3Exists = FALSE
  /\ s3Body = <<>>
  /\ CallInit
  /\ backend \in {"core", "node"}
  /\ prefix = <<>>
  /\ store = <<FileEntry(HandlePath, Stored)>>
  /\ entries = <<>>
  /\ objects = {}
  /\ calls = 0
  /\ result = NoResult
  /\ mkdirs = {}
  /\ was = NoCensus
  /\ file = <<>>
  /\ cachedSize = 0
  /\ wrote = <<>>
  /\ gone = FALSE
  /\ tasks \in { [t \in Tasks |-> NewTask(c[t][1], c[t][2], StreamOf(t, c[t][3]))] :
                   c \in [Tasks -> Kinds \X RunPaths \X (0..2)] }

RunNext ==
  \E t \in Tasks :
    \/ TaskOpen(t)
    \/ TaskBegin(t)
    \/ TaskPull(t)
    \/ TaskFinish(t)
    \/ TaskYield(t)
    \/ TaskReturn(t)
    \/ TaskError(t)
    \/ TaskClose(t)
    \/ TaskRaise(t)

RunSpec == RunInit /\ [][RunNext]_vars

\* C27: a handle the wrapper's write or read (and so readFile) opened is
\* closed by the time the operation has ended, however it ended: completed,
\* failed by its stream, aborted, or returned early by its consumer.
C27_WrapperClosesItsHandle ==
  \A t \in Tasks :
    (Wrapped(tasks[t].kind) /\ tasks[t].pc \in Ended) => tasks[t].handle = "closed"

\* a read whose consumer stopped after the first chunk, and a write whose
\* stream failed
C27_Witness ==
  /\ tasks[1].kind = "read"
  /\ tasks[1].pc = "returned"
  /\ tasks[1].handle = "closed"
  /\ tasks[2].kind = "write"
  /\ tasks[2].pc = "failed"
  /\ tasks[2].handle = "closed"

\* C28: an operation given a signal that is raised while the operation is
\* under way does not complete normally: unless its stream failed or its
\* consumer stopped first, it ends as aborted.
C28_RaisedSignalAborts ==
  \A t \in Tasks :
    (tasks[t].signal /\ tasks[t].outcome \notin {"none", "failed", "returned"}) =>
      tasks[t].outcome = "aborted"

\* C29: writes under way at once on distinct paths do not wait for one
\* another, and one that has completed has left exactly its own content at
\* its own path, whatever the other has done meanwhile.
C29_DistinctPathsKeepTheirContent ==
  (/\ tasks[1].kind = "write"
   /\ tasks[2].kind = "write"
   /\ tasks[1].path # tasks[2].path) =>
    \A t \in Tasks :
      /\ tasks[t].pc = "done" =>
           FileAt(store, tasks[t].path) = Merge(tasks[t].data)
      /\ tasks[t].pc \notin Ended =>
           ENABLED (TaskOpen(t) \/ TaskBegin(t) \/ TaskPull(t) \/ TaskFinish(t)
                      \/ TaskClose(t))

\* both writes of two chunks have completed on the platform's files
C29_Witness ==
  /\ backend = "node"
  /\ \A t \in Tasks :
       /\ tasks[t].kind = "write"
       /\ tasks[t].pc = "done"
       /\ Len(tasks[t].data) = 2
  /\ tasks[1].path # tasks[2].path

\* C30: when two whole-file writes to one path were under way at once and
\* both have completed, the path holds the whole content of one of them.
C30_OverlappingWritesLeaveOnePayload ==
  (/\ tasks[1].kind = "write"
   /\ tasks[2].kind = "write"
   /\ tasks[1].path = tasks[2].path
   /\ tasks[1].pc = "done"
   /\ tasks[2].pc = "done") =>
    FileAt(store, tasks[1].path) \in {Merge(tasks[1].data), Merge(tasks[2].data)}

\* C33: remove(P) leaves every stored entry whose path is neither P nor
\* beneath P where it was, with its content: siblings of P, and paths that
\* only begin with P as a string.
C33_RemoveLeavesTheRestAlone ==
  result.op = "remove" =>
    /\ \A q \in was.held :
         (q # result.path /\ ~Beneath(q, result.path)) => q \in StoredPaths
    /\ \A e \in was.bytes :
         (e[1] # result.path /\ ~Beneath(e[1], result.path)) => e \in StoredBytes

\* ------------------------------------------------------ copy and move
\* The longest path a directory copy is followed to.
MaxPath == 8

\* The sources and targets of the copy and move calls.
CopyArgs ==
  { <<"/", "a">>, <<"/", "b">>, <<"/", "a", "/", "a">>, <<"/", "a", "/", "b">> }

\* The files an instance may hold as the call starts, each with its own content.
Seeds ==
  << <<"/", "a", "/", "a">>, <<"/", "b">>, <<"/", "a", "/", "b", "/", "a">> >>
SeedContent(i) == [j \in 1..i |-> Now + i]

\* FilesApi.write(p, [content]) on the core store
WriteOf(m, p, content) ==
  LET made == getOrCreateFile(m, p)
  IN MapSet(made, FileEntry(p, createWriteStream(Get(made, p).content, 0, <<content>>)))

\* The instance after the files numbered in F were written in turn.
RECURSIVE SeededFrom(_, _, _)
SeededFrom(b, F, i) ==
  IF i = 0 THEN (IF b = "mem" THEN NewEntries ELSE <<>>)
  ELSE LET m == SeededFrom(b, F, i - 1)
       IN IF i \notin F THEN m
          ELSE IF b = "mem" THEN setFile(m, Seeds[i], SeedContent(i))
          ELSE WriteOf(m, Seeds[i], SeedContent(i))

NoJob ==
  [op |-> "none", source |-> <<>>, target |-> <<>>, pc |-> "idle", cursor |-> 0,
   out |-> FALSE]
Job(op, source, target, at, out) ==
  [op |-> op, source |-> source, target |-> target, pc |-> at, cursor |-> 0,
   out |-> out]

\* FilesApi.copy of a file through the fallback: write(target, read(source)).
\* The target's handle makes its entry, then the stream reads the source.
WrapperCopyFileAppending(m, source, target) ==
  LET made == getOrCreateFile(m, target)
  IN MapSet(made, FileEntry(target,
       appendFile(FileAt(made, target),
                  createReadStream(made, source, 0, Infinity))))

WrapperCopyFile(m, source, target) ==
  LET made == getOrCreateFile(m, target)
  IN MapSet(made, FileEntry(target,
       createWriteStream(FileAt(made, target), 0,
                         createReadStream(made, source, 0, Infinity))))

\* FilesApi.move through the fallback removes the source once copy returned true.
AfterCopy(op, m, source) ==
  IF op = "move" THEN DeleteAll(m, CoreRemoved(m, source)) ELSE m

\* webrun-files-mem MemFilesApi.move removes the source once copy returned true.
MemAfterCopy(op, m, source) ==
  IF op = "move" THEN DeleteAll(m, MemRemoved(m, source)) ELSE m

CopyKeeps ==
  UNCHANGED <<s3Vars, backend, prefix, objects, calls, result, mkdirs, file,
              cachedSize, wrote, gone>>

\* FilesApi.copy and FilesApi.move over the core store, which has neither:
\* stats of the source, then the file is copied or the listing is started.
WrapperCopy ==
  /\ backend = "core"
  /\ tasks.pc = "idle"
  /\ \E op \in {"copy", "move"}, source \in CopyArgs, target \in CopyArgs :
       LET sourceInfo == CoreStatsOf(store, source)
       IN CASE sourceInfo = NotFound ->
                 /\ tasks' = Job(op, source, target, "done", FALSE)
                 /\ store' = store
            [] sourceInfo.kind = "directory" ->
                 /\ tasks' = Job(op, source, target, "listing", TRUE)
                 /\ store' = store
            [] OTHER ->
                 /\ tasks' = Job(op, source, target, "done", TRUE)
                 /\ store' = AfterCopy(op, WrapperCopyFile(store, source, target),
                                       source)
  /\ was' = Census
  /\ UNCHANGED entries
  /\ CopyKeeps

\* One turn of the loop over list(source, {recursive}): the next entry of the
\* Map, as it is now, is written to the target when it is a file beneath the
\* source.
WrapperCopyEntry ==
  /\ backend = "core"
  /\ tasks.pc = "listing"
  /\ tasks.cursor < Len(store)
  /\ LET entry == store[tasks.cursor + 1]
         newTargetPath == tasks.target \o substring(entry.path, Len(tasks.source))
     IN /\ IF /\ startsWith(entry.path, ListPrefix(tasks.source))
              /\ entry.path # ListPrefix(tasks.source)
              /\ entry.kind # "directory"
           THEN /\ Len(newTargetPath) <= MaxPath
                /\ store' = WrapperCopyFile(store, entry.path, newTargetPath)
           ELSE store' = store
        /\ tasks' = [tasks EXCEPT !.cursor = @ + 1]
  /\ UNCHANGED <<entries, was>>
  /\ CopyKeeps

\* The listing is exhausted: copy returns true, and move removes the source.
WrapperCopyReturn ==
  /\ backend = "core"
  /\ tasks.pc = "listing"
  /\ tasks.cursor = Len(store)
  /\ tasks' = [tasks EXCEPT !.pc = "done"]
  /\ store' = AfterCopy(tasks.op, store, tasks.source)
  /\ UNCHANGED <<entries, was>>
  /\ CopyKeeps

\* webrun-files-mem MemFilesApi.copy and move: a file is set at the target; for
\* a directory the target is made and the loop over the entries is started.
MemCopy ==
  /\ backend = "mem"
  /\ tasks.pc = "idle"
  /\ \E op \in {"copy", "move"}, source \in CopyArgs, target \in CopyArgs :
       CASE ~MemRemoveFinds(entries, source) ->
              /\ tasks' = Job(op, source, target, "done", FALSE)
              /\ entries' = entries
         [] Has(entries, source) /\ Get(entries, source).kind = "file" ->
              /\ tasks' = Job(op, source, target, "done", TRUE)
              /\ entries' = MemAfterCopy(op,
                              setFile(entries, target, Get(entries, source).content),
                              source)
         [] OTHER ->
              /\ tasks' = Job(op, source, target, "listing", TRUE)
              /\ entries' = MemMkdirOf(entries, target)
  /\ was' = Census
  /\ UNCHANGED store
  /\ CopyKeeps

\* One turn of the loop over this.entries, as the Map is now.
MemCopyEntry ==
  /\ backend = "mem"
  /\ tasks.pc = "listing"
  /\ tasks.cursor < Len(entries)
  /\ LET entry == entries[tasks.cursor + 1]
         newPath == tasks.target \o substring(entry.path, Len(tasks.source))
     IN /\ IF startsWith(entry.path, tasks.source \o <<"/">>)
           THEN /\ Len(newPath) <= MaxPath
                /\ entries' = IF entry.kind = "file"
                              THEN setFile(entries, newPath, entry.content)
                              ELSE MemMkdirOf(entries, newPath)
           ELSE entries' = entries
        /\ tasks' = [tasks EXCEPT !.cursor = @ + 1]
  /\ UNCHANGED <<store, was>>
  /\ CopyKeeps

MemCopyReturn ==
  /\ backend = "mem"
  /\ tasks.pc = "listing"
  /\ tasks.cursor = Len(entries)
  /\ tasks' = [tasks EXCEPT !.pc = "done"]
  /\ entries' = MemAfterCopy(tasks.op, entries, tasks.source)
  /\ UNCHANGED <<store, was>>
  /\ CopyKeeps

CopyInit ==
  /\ s3Exists = FALSE
  /\ s3Body = <<>>
  /\ CallInit
  /\ backend \in {"core", "mem"}
  /\ prefix = <<>>
  /\ \E F \in SUBSET (1..Len(Seeds)) :
       /\ store = (IF backend = "core" THEN SeededFrom("core", F, Len(Seeds)) ELSE <<>>)
       /\ entries = (IF backend = "mem" THEN SeededFrom("mem", F, Len(Seeds)) ELSE <<>>)
  /\ objects = {}
  /\ calls = 0
  /\ result = NoResult
  /\ mkdirs = {}
  /\ was = NoCensus
  /\ file = <<>>
  /\ cachedSize = 0
  /\ wrote = <<>>
  /\ gone = FALSE
  /\ tasks = NoJob

CopyNext ==
  \/ WrapperCopy
  \/ WrapperCopyEntry
  \/ WrapperCopyReturn
  \/ MemCopy
  \/ MemCopyEntry
  \/ MemCopyReturn

CopySpec == CopyInit /\ [][CopyNext]_vars

\* The files that were at or beneath the source as the call started, each
\* with the path it has when carried over to the target.
Carried ==
  { <<tasks.target \o substring(e[1], Len(tasks.source)), e[2]>> :
      e \in { x \in was.bytes :
                x[1] = tasks.source \/ Beneath(x[1], tasks.source) } }

\* C31: once move(S, T) of an existing S has returned true, what was at S is
\* at T with its content, and S no longer exists when T is another path.
C31_MoveCarriesTheSource ==
  (tasks.op = "move" /\ tasks.pc = "done" /\ tasks.out) =>
    /\ Carried \subseteq StoredBytes
    /\ tasks.target # tasks.source => StatsNow(tasks.source) = NotFound

\* C32: copy(S, T) of an existing file S returns true, T then holds the
\* content S had, whatever T held, and S still holds it.
C32_CopyOfAFile ==
  \A e \in was.bytes :
    (tasks.op = "copy" /\ tasks.pc = "done" /\ e[1] = tasks.source) =>
      /\ tasks.out
      /\ <<tasks.target, e[2]>> \in StoredBytes
      /\ e \in StoredBytes

\* a file was copied to another path that held a file with other content
C32_Witness ==
  /\ tasks.op = "copy"
  /\ tasks.pc = "done"
  /\ tasks.target # tasks.source
  /\ \E e \in was.bytes, f \in was.bytes :
       e[1] = tasks.source /\ f[1] = tasks.target /\ e[2] # f[2]

\* C39: a copy of a directory writes the files that were beneath the source
\* as it started, each once at its place beneath the target, and no other:
\* at every turn the stored files are those of the start and those copies.
C39_DirectoryCopyIsOfTheStart ==
  (tasks.op = "copy" /\ tasks.pc # "idle" /\ tasks.source \in was.dirs) =>
    /\ StoredFiles \subseteq
         { e[1] : e \in was.bytes } \cup { e[1] : e \in Carried }
    /\ tasks.pc = "done" => Carried \subseteq StoredBytes

\* ------------------------------------------- the end of an upload session
CompleteOk(r) == r.op = "CompleteMultipartUpload" /\ r.ok

RECURSIVE SumOfParts(_)
SumOfParts(pr) == IF pr = <<>> THEN 0 ELSE PartLen(Head(pr)) + SumOfParts(Tail(pr))

C40_PartsOfPartSize ==
  (ApiCall /\ yielded > multipartPartSize) =>
    /\ \A i \in 1..(Len(PartReqs) - 1) : PartLen(PartReqs[i]) = multipartPartSize
    /\ \A i \in 1..Len(PartReqs) : PartLen(PartReqs[i]) <= multipartPartSize

\* ------------------------------------------ two handles on one path
\* The handles opened on HandlePath, and the appends followed.
Handles == {1, 2}
MaxAppends == 2

\* S3FileHandle.writeStream once it has succeeded: the object holds the bytes
\* before min(start, this._size), zero bytes up to start, then the data.
\* The ranged download is clipped to the object as it is.
S3Written(body, size, st, chunks) ==
  SubSeq(body, 1, Min(PreserveEnd(st, size), Len(body)))
    \o (IF st > size THEN Zeros(PaddingSize(st, size)) ELSE <<>>)
    \o Merge(chunks)

\* The preserved content cannot be had from an object shorter than the
\* handle's size: a part-copy beyond its end, or a download from beyond it.
S3PreserveFails(body, size, st) ==
  \/ FullPartsEnd(st, size) > Len(body)
  \/ FullPartsEnd(st, size) < PreserveEnd(st, size)
       /\ FullPartsEnd(st, size) >= Len(body)

PairKeeps ==
  UNCHANGED <<s3Vars, backend, prefix, entries, objects, calls, result, mkdirs,
              was, gone>>

\* open: the Node-free backends read the size once, S3 by HeadObject and the
\* browser from the File; the core handle keeps the store and the path.
OpenOn(h) ==
  /\ ~tasks[h].open
  /\ tasks' = [tasks EXCEPT ![h] = [open |-> TRUE, size |-> Len(FileNow)]]
  /\ UNCHANGED <<store, file, cachedSize, wrote>>
  /\ PairKeeps

\* An append through handle h is made and noted.
Appended(op, h, chunks) ==
  /\ tasks[h].open
  /\ Len(wrote) < MaxAppends
  /\ wrote' = Append(wrote, [op |-> op, handle |-> h, data |-> chunks,
                             before |-> FileNow,
                             opened |-> { g \in Handles : tasks[g].open }])
  /\ UNCHANGED cachedSize
  /\ PairKeeps

\* MemFileHandle.appendFile
MemAppendThrough(h) ==
  /\ backend = "core"
  /\ \E chunks \in Streams :
       LET m == getOrCreateFile(store, HandlePath)
       IN /\ store' = MapSet(m, FileEntry(HandlePath,
                        appendFile(Get(m, HandlePath).content, chunks)))
          /\ Appended("append", h, chunks)
  /\ UNCHANGED <<file, tasks>>

\* BrowserFileHandle.appendFile: seek to this._size, write, then take the
\* size of the file.
BrowserAppendThrough(h) ==
  /\ backend = "browser"
  /\ \E chunks \in Streams :
       /\ file' = BrowserAppended(file, tasks[h].size, chunks)
       /\ tasks' = [tasks EXCEPT ![h].size =
                      Len(BrowserAppended(file, tasks[h].size, chunks))]
       /\ Appended("append", h, chunks)
  /\ UNCHANGED store

\* S3FileHandle: writeStream(data, { start: this.size })
S3AppendThrough(h) ==
  /\ backend = "s3"
  /\ \E chunks \in Streams :
       IF S3PreserveFails(file, tasks[h].size, tasks[h].size)
       THEN /\ Appended("error", h, chunks)
            /\ UNCHANGED <<file, tasks>>
       ELSE /\ file' = S3Written(file, tasks[h].size, tasks[h].size, chunks)
            /\ tasks' = [tasks EXCEPT ![h].size =
                           SizeAfterWrite(tasks[h].size + Len(Merge(chunks)),
                                          Len(Merge(chunks)))]
            /\ Appended("append", h, chunks)
  /\ UNCHANGED store

PairInit ==
  /\ s3Exists = FALSE
  /\ s3Body = <<>>
  /\ CallInit
  /\ backend \in {"core", "browser", "s3"}
  /\ prefix = <<>>
  /\ \E content \in Opened :
       /\ store = (IF backend = "core" THEN WriteOf(<<>>, HandlePath, content)
                   ELSE <<>>)
       /\ file = (IF backend = "core" THEN <<>> ELSE content)
  /\ entries = <<>>
  /\ objects = {}
  /\ calls = 0
  /\ result = NoResult
  /\ mkdirs = {}
  /\ was = NoCensus
  /\ cachedSize = 0
  /\ wrote = <<>>
  /\ gone = FALSE
  /\ tasks = [h \in Handles |-> [open |-> FALSE, size |-> 0]]

PairNext ==
  \E h \in Handles :
    \/ OpenOn(h)
    \/ MemAppendThrough(h)
    \/ BrowserAppendThrough(h)
    \/ S3AppendThrough(h)

PairSpec == PairInit /\ [][PairNext]_vars

\* C36: an append through a handle, made when no other append is under way,
\* leaves the file holding what it held, then the payload: nothing an earlier
\* append through another handle of the same path has put there is lost,
\* whichever of the two handles was opened first.
C36_AppendKeepsEarlierAppends ==
  (wrote # <<>> /\ LastWrote.op = "append") =>
    FileNow = LastWrote.before \o Merge(LastWrote.data)

\* ------------------------------------------- what a call leaves behind
\* The store as the calls are made, and as it is when the caller has opened
\* a handle on p: on the platform's files open creates the file.
AtStart == <<FileEntry(HandlePath, Stored)>>
AtStartOpened(p) ==
  IF backend = "node" /\ ~Has(AtStart, p) THEN MapSet(AtStart, FileEntry(p, <<>>))
  ELSE AtStart

\* No other call has begun.
Alone(t) == \A u \in Tasks \ {t} : tasks[u].pc = "call"

\* C37: a write or an append that failed before it completed, by an error
\* of its data or by its signal, leaves the store as it was when the call
\* was made (for a call through a handle: as it was once the handle was
\* opened): the content is intact and no entry was created.
C37_FailedWriteLeavesNoTrace ==
  \A t \in Tasks :
    (/\ tasks[t].kind \in {"write", "stream", "append"}
     /\ tasks[t].pc \in {"failed", "aborted"}
     /\ Alone(t)) =>
      store = IF Wrapped(tasks[t].kind) THEN AtStart
              ELSE AtStartOpened(normalizePath(tasks[t].path))

\* C38: a read of a path that holds nothing, once it has ended, leaves the
\* store as it was: the path still holds nothing.
C38_ReadOfMissingLeavesNoTrace ==
  \A t \in Tasks :
    (/\ tasks[t].kind = "read"
     /\ ~Has(AtStart, normalizePath(tasks[t].path))
     /\ tasks[t].pc \in Ended
     /\ Alone(t)) =>
      store = AtStart

====
